---- MODULE Spec2Model ----
(***************************************************************************)
(* A model of the TDX formula interpreter: the precedence-climbing parser  *)
(* (parser/parser.py, parser/precedence.py), the tree-walking evaluator    *)
(* (core/evaluator.py), the execution context (core/context.py) and the    *)
(* function registry (functions/registry.py, functions/base.py).           *)
(*                                                                         *)
(* Python values are dynamically typed.  Each kind of value is a record    *)
(* with its own field names, so that two values of different kinds are     *)
(* simply unequal:                                                         *)
(*    number   [num |-> n, den |-> d]   the rational n/d, d > 0; den = 0   *)
(*             marks the IEEE specials: 0/0 nan, 1/0 inf, -1/0 -inf        *)
(*    string   [str |-> s]                                                 *)
(*    bool     [bool |-> b]                                                *)
(*    None     [none |-> TRUE]                                             *)
(*    Series   [series |-> <<e0, e1, ...>>] with the default RangeIndex    *)
(*             0..L-1 (the index pandas gives a DataFrame built from a     *)
(*             dict and a Series built from a scalar)                      *)
(***************************************************************************)
EXTENDS Integers, Sequences, FiniteSets, TLC

VARIABLES
    lexer_text, \* TDXLexer.text: the characters handed to tokenize
    lexed,      \* what TDXLexer.tokenize returned or raised for text
    tokens,     \* TDXParser.tokens: the token sequence handed to parse
    parsed,     \* what TDXParser.parse returned or raised for tokens
    pc,         \* where the caller is: before a call or holding its outcome
    data,       \* TDXContext._data: None or the bound DataFrame
    scopes,     \* TDXContext._scopes: the stack of name -> value maps
    functions,  \* TDXContext._functions: name -> implementation
    registry,   \* functions.registry._functions, the module-level registry
    aliases,    \* functions.registry._aliases: alias -> function name
    categories, \* functions.registry._categories: category -> function names
    other,      \* a second TDXInterpreter: its context and its last outcome
    result      \* what TDXInterpreter.evaluate returned or raised

vars ==
    <<lexer_text, lexed, tokens, parsed, pc, data, scopes, functions, registry,
      aliases, categories, other, result>>

----------------------------------------------------------------------------
(* Python values                                                           *)

PyStr(s) == [str |-> s]
PyNum(n) == [num |-> n, den |-> 1]
PyNone == [none |-> TRUE]

PyBool(b) == [bool |-> b]
NpFloat(q) == [np |-> q]
Series(elems) == [series |-> elems]

IsNumber(v) == "num" \in DOMAIN v
IsBool(v) == "bool" \in DOMAIN v
IsString(v) == "str" \in DOMAIN v
IsNpFloat(v) == "np" \in DOMAIN v
IsSeries(v) == "series" \in DOMAIN v

----------------------------------------------------------------------------
(* Numbers.  A Python int or float is the rational num/den; a float64 (an  *)
(* element of a Series, or the numpy scalar read out of one) is a rational *)
(* or one of nan, inf, -inf.  The sign of a float zero is not tracked.     *)

RECURSIVE GCD(_, _)
GCD(a, b) == IF b = 0 THEN a ELSE GCD(b, a % b)

Abs(n) == IF n < 0 THEN -n ELSE n

\* n/d in lowest terms with a positive denominator (d # 0)
Rat(n, d) ==
    LET g == GCD(Abs(n), Abs(d))
        s == IF d < 0 THEN -1 ELSE 1
    IN  [num |-> (s * n) \div g, den |-> (s * d) \div g]

NaN == [num |-> 0, den |-> 0]
Inf(sign) == [num |-> sign, den |-> 0]

IsNaN(q) == q.den = 0 /\ q.num = 0
IsInf(q) == q.den = 0 /\ q.num # 0
IsZero(q) == q.den # 0 /\ q.num = 0
Sign(q) == IF q.num < 0 THEN -1 ELSE 1

\* floor of a finite rational
Floor(q) == q.num \div q.den

\* IEEE-754 double arithmetic as numpy applies it elementwise
float_add(a, b) ==
    IF IsNaN(a) \/ IsNaN(b) THEN NaN
    ELSE IF IsInf(a) /\ IsInf(b) THEN (IF a.num = b.num THEN a ELSE NaN)
    ELSE IF IsInf(a) THEN a
    ELSE IF IsInf(b) THEN b
    ELSE Rat(a.num * b.den + b.num * a.den, a.den * b.den)

float_neg(a) == [num |-> -a.num, den |-> a.den]

float_sub(a, b) == float_add(a, float_neg(b))

float_mul(a, b) ==
    IF IsNaN(a) \/ IsNaN(b) THEN NaN
    ELSE IF IsInf(a) \/ IsInf(b)
    THEN (IF IsZero(a) \/ IsZero(b) THEN NaN ELSE Inf(Sign(a) * Sign(b)))
    ELSE Rat(a.num * b.num, a.den * b.den)

\* x / 0 is inf or -inf, 0 / 0 is nan: numpy warns and does not raise
float_div(a, b) ==
    IF IsNaN(a) \/ IsNaN(b) THEN NaN
    ELSE IF IsInf(a) THEN (IF IsInf(b) THEN NaN ELSE Inf(Sign(a) * Sign(b)))
    ELSE IF IsInf(b) THEN Rat(0, 1)
    ELSE IF IsZero(b) THEN (IF IsZero(a) THEN NaN ELSE Inf(Sign(a)))
    ELSE Rat(a.num * b.den, a.den * b.num)

\* x % 0 is nan; the result takes the sign of the divisor
float_mod(a, b) ==
    IF IsNaN(a) \/ IsNaN(b) \/ IsInf(a) \/ IsZero(b) THEN NaN
    ELSE IF IsInf(b) THEN (IF IsZero(a) \/ Sign(a) = Sign(b) THEN a ELSE b)
    ELSE float_sub(a, float_mul(b, Rat(Floor(float_div(a, b)), 1)))

\* a ** n for an integer n >= 0
RECURSIVE int_power(_, _)
int_power(a, n) == IF n = 0 THEN Rat(1, 1) ELSE float_mul(a, int_power(a, n - 1))

IsInteger(q) == q.den = 1

\* a ** b for an integer exponent; other exponents are outside the model
float_pow(a, b) ==
    CASE IsInteger(b) /\ b.num >= 0 -> int_power(a, b.num)
      [] IsInteger(b) /\ b.num < 0 -> float_div(Rat(1, 1), int_power(a, -b.num))

float_lt(a, b) ==
    IF IsNaN(a) \/ IsNaN(b) THEN FALSE
    ELSE IF IsInf(a) /\ IsInf(b) THEN a.num < b.num
    ELSE IF IsInf(a) THEN a.num < 0
    ELSE IF IsInf(b) THEN b.num > 0
    ELSE a.num * b.den < b.num * a.den

float_eq(a, b) == ~IsNaN(a) /\ ~IsNaN(b) /\ a = b

----------------------------------------------------------------------------
(* lexer/tokens.py: tokens.  A token is [type, value]; type is the name of *)
(* the TokenType member, value is the Python value the lexer stored.       *)

Token(type, value) == [type |-> type, value |-> value]

\* tokens.py OPERATORS: lexeme -> TokenType
OPERATORS ==
    [lex \in {"+", "-", "*", "/", "%", "^", "=", "<>", "!=", ">", "<", ">=", "<=", ":="} |->
        CASE lex = "+"  -> "PLUS"
          [] lex = "-"  -> "MINUS"
          [] lex = "*"  -> "MULTIPLY"
          [] lex = "/"  -> "DIVIDE"
          [] lex = "%"  -> "MODULO"
          [] lex = "^"  -> "POWER"
          [] lex = "="  -> "EQUAL"
          [] lex = "<>" -> "NOT_EQUAL"
          [] lex = "!=" -> "NOT_EQUAL"
          [] lex = ">"  -> "GREATER"
          [] lex = "<"  -> "LESS"
          [] lex = ">=" -> "GREATER_EQUAL"
          [] lex = "<=" -> "LESS_EQUAL"
          [] lex = ":=" -> "ASSIGN"]

\* tokens.py KEYWORDS: upper-cased word -> TokenType
KEYWORDS ==
    [w \in {"IF", "THEN", "ELSE", "AND", "OR", "NOT"} |-> w]

\* tokens.py DELIMITERS: character -> TokenType
DELIMITERS ==
    [ch \in {"(", ")", "[", "]", ",", ";"} |->
        CASE ch = "(" -> "LEFT_PAREN"
          [] ch = ")" -> "RIGHT_PAREN"
          [] ch = "[" -> "LEFT_BRACKET"
          [] ch = "]" -> "RIGHT_BRACKET"
          [] ch = "," -> "COMMA"
          [] ch = ";" -> "SEMICOLON"]

\* The tokens the lexer emits for a number, a word, an operator lexeme, ...
NumTok(n) == Token("NUMBER", PyNum(n))
StrTok(s) == Token("STRING", PyStr(s))
IdTok(name) == Token("IDENTIFIER", PyStr(name))
OpTok(lex) == Token(OPERATORS[lex], PyStr(lex))
KwTok(w) == Token(KEYWORDS[w], PyStr(w))
DelimTok(ch) == Token(DELIMITERS[ch], PyStr(ch))
NewlineTok == Token("NEWLINE", PyStr("\n"))
EofTok == Token("EOF", PyNone)

----------------------------------------------------------------------------
(* lexer/lexer.py.  A text is the sequence of its characters, each a       *)
(* one-character string; self.position is the Python 0-based index, so the *)
(* character at position p is text[p + 1].  A token of the lexer is        *)
(* [type, value, position, line, column].                                  *)

UpperLetters ==
    <<"A", "B", "C", "D", "E", "F", "G", "H", "I", "J", "K", "L", "M",
      "N", "O", "P", "Q", "R", "S", "T", "U", "V", "W", "X", "Y", "Z">>
LowerLetters ==
    <<"a", "b", "c", "d", "e", "f", "g", "h", "i", "j", "k", "l", "m",
      "n", "o", "p", "q", "r", "s", "t", "u", "v", "w", "x", "y", "z">>
Digits == <<"0", "1", "2", "3", "4", "5", "6", "7", "8", "9">>

Range(seq) == {seq[i] : i \in DOMAIN seq}

\* [0-9], [A-Za-z_] and [A-Za-z0-9_]
DigitChars == Range(Digits)
IdentifierStartChars == Range(UpperLetters) \cup Range(LowerLetters) \cup {"_"}
IdentifierChars == IdentifierStartChars \cup DigitChars

\* str.upper() of one character
char_upper(ch) ==
    IF ch \in Range(LowerLetters)
    THEN UpperLetters[CHOOSE i \in DOMAIN LowerLetters : LowerLetters[i] = ch]
    ELSE ch

\* The str of a sequence of characters
RECURSIVE join(_)
join(chars) == IF chars = <<>> THEN "" ELSE Head(chars) \o join(Tail(chars))

\* match.group(): the characters from position start up to position end
group(text, start, end) == SubSeq(text, start + 1, end)

\* TDXLexer._current_char
current_char(text, position) ==
    IF position >= Len(text) THEN "" ELSE text[position + 1]

\* The outcome of pattern.match(text, position): no match, or the end of it
NoMatch == [matched |-> FALSE]
Match(end) == [matched |-> TRUE, end |-> end]

\* The end of the longest run of characters of a class from position on
run_end(text, position, chars) ==
    CHOOSE q \in position..Len(text) :
        /\ \A k \in position..(q - 1) : text[k + 1] \in chars
        /\ q = Len(text) \/ text[q + 1] \notin chars

\* `.*?$` under MULTILINE | DOTALL: up to the end of the line or of the text
line_end(text, position) ==
    CHOOSE q \in position..Len(text) :
        /\ \A k \in position..(q - 1) : text[k + 1] # "\n"
        /\ q = Len(text) \/ text[q + 1] = "\n"

\* whitespace_pattern: [ \t]+
whitespace_match(text, position) ==
    IF run_end(text, position, {" ", "\t"}) > position
    THEN Match(run_end(text, position, {" ", "\t"}))
    ELSE NoMatch

\* comment_pattern: //.*?$ | \{.*?\} | #.*?$
comment_match(text, position) ==
    IF current_char(text, position) = "/" /\ current_char(text, position + 1) = "/"
    THEN Match(line_end(text, position + 2))
    ELSE IF current_char(text, position) = "{"
    THEN IF \E q \in (position + 1)..(Len(text) - 1) : text[q + 1] = "}"
         THEN Match(1 + CHOOSE q \in (position + 1)..(Len(text) - 1) :
                            /\ text[q + 1] = "}"
                            /\ \A k \in (position + 1)..(q - 1) : text[k + 1] # "}")
         ELSE NoMatch
    ELSE IF current_char(text, position) = "#"
    THEN Match(line_end(text, position + 1))
    ELSE NoMatch

\* number_pattern: \d+(?:\.\d+)?
number_match(text, position) ==
    LET fraction(d1) ==
            IF current_char(text, d1) = "." /\ current_char(text, d1 + 1) \in DigitChars
            THEN Match(run_end(text, d1 + 1, DigitChars))
            ELSE Match(d1)
        digits(d1) == IF d1 = position THEN NoMatch ELSE fraction(d1)
    IN  digits(run_end(text, position, DigitChars))

\* string_pattern: "([^"\\]|\\.)*", from the character after the opening quote
RECURSIVE string_scan(_, _)
string_scan(text, q) ==
    IF q >= Len(text) THEN NoMatch
    ELSE IF text[q + 1] = "\"" THEN Match(q + 1)
    ELSE IF text[q + 1] = "\\"
    THEN IF q + 1 < Len(text) /\ text[q + 2] # "\n" THEN string_scan(text, q + 2)
         ELSE NoMatch
    ELSE string_scan(text, q + 1)

string_match(text, position) ==
    IF current_char(text, position) = "\"" THEN string_scan(text, position + 1)
    ELSE NoMatch

\* identifier_pattern: [A-Za-z_][A-Za-z0-9_]*
identifier_match(text, position) ==
    IF current_char(text, position) \in IdentifierStartChars
    THEN Match(run_end(text, position, IdentifierChars))
    ELSE NoMatch

\* int(value_str) of a run of digits
RECURSIVE int_value(_)
int_value(chars) ==
    IF chars = <<>> THEN 0
    ELSE 10 * int_value(SubSeq(chars, 1, Len(chars) - 1))
         + ((CHOOSE i \in DOMAIN Digits : Digits[i] = chars[Len(chars)]) - 1)

RECURSIVE power_of_ten(_)
power_of_ten(n) == IF n = 0 THEN 1 ELSE 10 * power_of_ten(n - 1)

\* int(value_str), or float(value_str) when value_str holds a `.`
number_value(chars) ==
    IF \E i \in DOMAIN chars : chars[i] = "."
    THEN Rat(int_value(SelectSeq(chars, LAMBDA ch : ch # ".")),
             power_of_ten(Len(chars)
                          - (CHOOSE i \in DOMAIN chars : chars[i] = ".")))
    ELSE PyNum(int_value(chars))

\* s.replace(old, new) for a two-character old and a one-character new
RECURSIVE replace(_, _, _, _)
replace(chars, old1, old2, new) ==
    IF Len(chars) < 2 THEN chars
    ELSE IF chars[1] = old1 /\ chars[2] = old2
    THEN <<new>> \o replace(SubSeq(chars, 3, Len(chars)), old1, old2, new)
    ELSE <<chars[1]>> \o replace(Tail(chars), old1, old2, new)

\* value_str[1:-1].replace('\\"', '"').replace('\\\\', '\\')
string_value(chars) ==
    replace(replace(SubSeq(chars, 2, Len(chars) - 1), "\\", "\"", "\""),
            "\\", "\\", "\\")

\* TDXLexer._tokenize_operator: the longest operator lexeme the rest of the
\* text starts with (no lexeme is longer than two characters), or ""
operator_at(text, position) ==
    IF /\ position + 1 < Len(text)
       /\ (text[position + 1] \o text[position + 2]) \in DOMAIN OPERATORS
    THEN text[position + 1] \o text[position + 2]
    ELSE IF current_char(text, position) \in DOMAIN OPERATORS
    THEN current_char(text, position)
    ELSE ""

\* The number of characters of an operator lexeme
operator_len(op) == IF op \in {"<>", "!=", ">=", "<=", ":="} THEN 2 ELSE 1

\* TDXLexer._add_token: the token list with the new token appended
add_token(toks, token_type, value, position, line, column) ==
    Append(toks, [type |-> token_type, value |-> value, position |-> position,
                  line |-> line, column |-> column])

LexOk(toks) == [ok |-> TRUE, tokens |-> toks]

\* A lexer that ends the scan quietly at a character no rule matches
stop_at_unknown_character(position, line, column) ==
    LexOk(add_token(<<>>, "EOF", PyNone, position, line, column))

\* TDXLexer._handle_unknown_character
handle_unknown_character(position, line, column) ==
    [ok |-> FALSE, error |-> "TDXSyntaxError", position |-> position,
     line |-> line, column |-> column]

\* comment_text.count('\n')
newlines(chars) == Cardinality({i \in DOMAIN chars : chars[i] = "\n"})

\* len(comment_text.split('\n')[-1])
last_line_len(chars) ==
    Len(chars) - (CHOOSE i \in DOMAIN chars :
                     chars[i] = "\n" /\ \A k \in (i + 1)..Len(chars) : chars[k] # "\n")

\* The while loop of TDXLexer.tokenize with the rules in its order:
\* _skip_whitespace, _skip_comment, _handle_newline, _tokenize_number,
\* _tokenize_string, _tokenize_operator, _tokenize_delimiter,
\* _tokenize_identifier, _handle_unknown_character; then the EOF token
RECURSIVE tokenize_from(_, _, _, _, _)
tokenize_from(text, position, line, column, toks) ==
    LET skip_whitespace(end) ==
            tokenize_from(text, end, line, column + (end - position), toks)
        skip_comment(comment, end) ==
            IF newlines(comment) > 0
            THEN tokenize_from(text, end, line + newlines(comment),
                               last_line_len(comment) + 1, toks)
            ELSE tokenize_from(text, end, line, column + Len(comment), toks)
        number(end) ==
            tokenize_from(text, end, line, column + (end - position),
                add_token(toks, "NUMBER", number_value(group(text, position, end)),
                          position, line, column))
        string(end) ==
            tokenize_from(text, end, line, column + (end - position),
                add_token(toks, "STRING",
                          PyStr(join(string_value(group(text, position, end)))),
                          position, line, column))
        operator(op) ==
            tokenize_from(text, position + operator_len(op), line,
                column + operator_len(op),
                add_token(toks, OPERATORS[op], PyStr(op), position, line, column))
        delimiter(ch) ==
            tokenize_from(text, position + 1, line, column + 1,
                add_token(toks, DELIMITERS[ch], PyStr(ch), position, line, column))
        identifier(value, end) ==
            tokenize_from(text, end, line, column + (end - position),
                add_token(toks,
                          IF value \in DOMAIN KEYWORDS THEN KEYWORDS[value]
                          ELSE "IDENTIFIER",
                          PyStr(value), position, line, column))
    IN  IF position >= Len(text)
        THEN LexOk(add_token(toks, "EOF", PyNone, position, line, column))
        ELSE IF whitespace_match(text, position).matched
        THEN skip_whitespace(whitespace_match(text, position).end)
        ELSE IF comment_match(text, position).matched
        THEN skip_comment(group(text, position, comment_match(text, position).end),
                          comment_match(text, position).end)
        ELSE IF current_char(text, position) = "\n"
        THEN tokenize_from(text, position + 1, line + 1, 1,
                 add_token(toks, "NEWLINE", PyStr("\n"), position, line, column))
        ELSE IF number_match(text, position).matched
        THEN number(number_match(text, position).end)
        ELSE IF string_match(text, position).matched
        THEN string(string_match(text, position).end)
        ELSE IF operator_at(text, position) # ""
        THEN operator(operator_at(text, position))
        ELSE IF current_char(text, position) \in DOMAIN DELIMITERS
        THEN delimiter(current_char(text, position))
        ELSE IF identifier_match(text, position).matched
        THEN identifier(join([i \in 1..(identifier_match(text, position).end - position)
                                 |-> char_upper(text[position + i])]),
                        identifier_match(text, position).end)
        ELSE handle_unknown_character(position, line, column)

\* TDXLexer.tokenize
tokenize(text) == tokenize_from(text, 0, 1, 1, <<>>)

----------------------------------------------------------------------------
(* core/ast_nodes.py: the AST nodes, one record shape per node class.      *)

NumberLiteral(value) == [kind |-> "NumberLiteral", value |-> value]
StringLiteral(value) == [kind |-> "StringLiteral", value |-> value]
Identifier(name) == [kind |-> "Identifier", name |-> name]
BinaryOperation(left, operator, right) ==
    [kind |-> "BinaryOperation", left |-> left, operator |-> operator, right |-> right]
UnaryOperation(operator, operand) ==
    [kind |-> "UnaryOperation", operator |-> operator, operand |-> operand]
FunctionCall(name, arguments) ==
    [kind |-> "FunctionCall", name |-> name, arguments |-> arguments]
Assignment(name, value) == [kind |-> "Assignment", name |-> name, value |-> value]
ConditionalExpression(condition, true_value, false_value) ==
    [kind |-> "ConditionalExpression", condition |-> condition,
     true_value |-> true_value, false_value |-> false_value]
ArrayAccess(array, index) == [kind |-> "ArrayAccess", array |-> array, index |-> index]
Program(body) == [kind |-> "Program", body |-> body]

----------------------------------------------------------------------------
(* parser/precedence.py                                                    *)

Precedence_NONE == 0
Precedence_ASSIGNMENT == 1
Precedence_OR == 2
Precedence_AND == 3
Precedence_EQUALITY == 4
Precedence_COMPARISON == 5
Precedence_TERM == 6
Precedence_FACTOR == 7
Precedence_UNARY == 8
Precedence_POWER == 9

\* OperatorPrecedence.PRECEDENCE_MAP
PRECEDENCE_MAP ==
    [t \in {"ASSIGN", "OR", "AND", "NOT", "EQUAL", "NOT_EQUAL", "GREATER", "LESS",
            "GREATER_EQUAL", "LESS_EQUAL", "PLUS", "MINUS", "MULTIPLY", "DIVIDE",
            "MODULO", "POWER"} |->
        CASE t = "ASSIGN" -> Precedence_ASSIGNMENT
          [] t = "OR" -> Precedence_OR
          [] t = "AND" -> Precedence_AND
          [] t = "NOT" -> Precedence_UNARY
          [] t \in {"EQUAL", "NOT_EQUAL"} -> Precedence_EQUALITY
          [] t \in {"GREATER", "LESS", "GREATER_EQUAL", "LESS_EQUAL"} -> Precedence_COMPARISON
          [] t \in {"PLUS", "MINUS"} -> Precedence_TERM
          [] t \in {"MULTIPLY", "DIVIDE", "MODULO"} -> Precedence_FACTOR
          [] t = "POWER" -> Precedence_POWER]

\* OperatorPrecedence.RIGHT_ASSOCIATIVE
RIGHT_ASSOCIATIVE == {"ASSIGN", "POWER", "NOT"}

\* A precedence table without levels: every operator of the table sits at
\* the level of + and -
flat_precedence(token_type) ==
    IF token_type \in DOMAIN PRECEDENCE_MAP THEN Precedence_TERM
    ELSE Precedence_NONE

\* A precedence table with ^ at the level of * / %, below the unary level
power_as_factor(token_type) ==
    IF token_type = "POWER" THEN Precedence_FACTOR
    ELSE IF token_type \in DOMAIN PRECEDENCE_MAP THEN PRECEDENCE_MAP[token_type]
    ELSE Precedence_NONE

\* OperatorPrecedence.get_precedence: PRECEDENCE_MAP.get(token_type, NONE)
get_precedence(token_type) ==
    IF token_type \in DOMAIN PRECEDENCE_MAP THEN PRECEDENCE_MAP[token_type]
    ELSE Precedence_NONE

\* OperatorPrecedence.is_right_associative
is_right_associative(token_type) == token_type \in RIGHT_ASSOCIATIVE

----------------------------------------------------------------------------
(* parser/parser.py.  self.current is the Python 0-based index `cur`; the  *)
(* token at Python index i is toks[i + 1].  A parsing method returns       *)
(* Ok(node, cur) or Raise(...) for the exception that leaves it.           *)

Ok(node, cur) == [ok |-> TRUE, node |-> node, cur |-> cur]
Raise(error, cause, cur) == [ok |-> FALSE, error |-> error, cause |-> cause, cur |-> cur]

\* TDXParser._is_at_end
is_at_end(toks, cur) ==
    \/ cur >= Len(toks)
    \/ (cur < Len(toks) /\ toks[cur + 1].type = "EOF")

\* TDXParser._peek
peek(toks, cur) == IF cur >= Len(toks) THEN toks[Len(toks)] ELSE toks[cur + 1]

\* TDXParser._previous: tokens[current - 1]; Python index -1 is the last token
previous(toks, cur) == IF cur = 0 THEN toks[Len(toks)] ELSE toks[cur]

\* TDXParser._advance: the new value of self.current (the token returned is
\* previous(toks, advance(toks, cur)))
advance(toks, cur) == IF ~is_at_end(toks, cur) THEN cur + 1 ELSE cur

\* TDXParser._check
check(toks, cur, token_type) ==
    IF is_at_end(toks, cur) THEN FALSE ELSE peek(toks, cur).type = token_type

\* TDXParser._consume: Ok(token, cur + 1), or TDXSyntaxError at the current token
consume(toks, cur, token_type) ==
    IF check(toks, cur, token_type)
    THEN Ok(previous(toks, advance(toks, cur)), advance(toks, cur))
    ELSE Raise("TDXSyntaxError", "expected " \o token_type, cur)

RECURSIVE parse_precedence(_, _, _)
RECURSIVE parse_infix_loop(_, _, _, _)
RECURSIVE parse_prefix(_, _)
RECURSIVE parse_infix(_, _, _, _)
RECURSIVE parse_function_call(_, _, _)
RECURSIVE parse_arguments(_, _, _)
RECURSIVE parse_array_access(_, _, _)
RECURSIVE parse_conditional(_, _)

\* TDXParser._parse_expression
parse_expression(toks, cur) == parse_precedence(toks, cur, Precedence_ASSIGNMENT)

\* An infix rule that makes every operator left-associative: the right
\* operand is parsed one level above the operator's precedence
parse_infix_left(toks, cur, left, operator_token) ==
    LET binary(right) ==
            IF ~right.ok THEN right
            ELSE Ok(BinaryOperation(left, operator_token.value, right.node), right.cur)
    IN  binary(parse_precedence(toks, cur, get_precedence(operator_token.type) + 1))

\* TDXParser._parse_infix: the right operand is parsed at the operator's own
\* precedence, one lower for a right-associative operator
parse_infix(toks, cur, left, operator_token) ==
    LET binary(right) ==
            IF ~right.ok THEN right
            ELSE Ok(BinaryOperation(left, operator_token.value, right.node), right.cur)
    IN  binary(parse_precedence(toks, cur,
                   IF is_right_associative(operator_token.type)
                   THEN get_precedence(operator_token.type) - 1
                   ELSE get_precedence(operator_token.type)))

\* The while loop of TDXParser._parse_precedence
parse_infix_loop(toks, cur, left, precedence) ==
    LET again(r) ==
            IF ~r.ok THEN r ELSE parse_infix_loop(toks, r.cur, r.node, precedence)
        infix(c1) == again(parse_infix(toks, c1, left, previous(toks, c1)))
    IN  IF ~is_at_end(toks, cur) /\ get_precedence(peek(toks, cur).type) >= precedence
        THEN infix(advance(toks, cur))
        ELSE Ok(left, cur)

\* TDXParser._parse_precedence
parse_precedence(toks, cur, precedence) ==
    LET loop(left) ==
            IF ~left.ok THEN left
            ELSE parse_infix_loop(toks, left.cur, left.node, precedence)
    IN  loop(parse_prefix(toks, cur))

\* TDXParser._parse_array_access
parse_array_access(toks, cur, array) ==
    LET closed(index, rb) ==
            IF ~rb.ok THEN rb ELSE Ok(ArrayAccess(array, index.node), rb.cur)
        indexed(index) ==
            IF ~index.ok THEN index
            ELSE closed(index, consume(toks, index.cur, "RIGHT_BRACKET"))
        opened(lb) ==
            IF ~lb.ok THEN lb ELSE indexed(parse_expression(toks, lb.cur))
    IN  opened(consume(toks, cur, "LEFT_BRACKET"))

\* The while loop of TDXParser._parse_function_call: `, expression` repeated
parse_arguments(toks, cur, arguments) ==
    LET more(arg) ==
            IF ~arg.ok THEN arg
            ELSE parse_arguments(toks, arg.cur, Append(arguments, arg.node))
    IN  IF check(toks, cur, "COMMA")
        THEN more(parse_expression(toks, advance(toks, cur)))
        ELSE Ok(arguments, cur)

\* TDXParser._parse_function_call
parse_function_call(toks, cur, name) ==
    LET closed(args, rp) ==
            IF ~rp.ok THEN rp ELSE Ok(FunctionCall(name, args.node), rp.cur)
        listed(args) ==
            IF ~args.ok THEN args
            ELSE closed(args, consume(toks, args.cur, "RIGHT_PAREN"))
        rest(first) ==
            IF ~first.ok THEN first
            ELSE parse_arguments(toks, first.cur, <<first.node>>)
        opened(lp) ==
            IF ~lp.ok THEN lp
            ELSE listed(IF check(toks, lp.cur, "RIGHT_PAREN") THEN Ok(<<>>, lp.cur)
                        ELSE rest(parse_expression(toks, lp.cur)))
    IN  opened(consume(toks, cur, "LEFT_PAREN"))

\* TDXParser._parse_identifier_or_call
parse_identifier_or_call(toks, cur, name_token) ==
    IF check(toks, cur, "LEFT_PAREN")
    THEN parse_function_call(toks, cur, name_token.value)
    ELSE IF check(toks, cur, "LEFT_BRACKET")
    THEN parse_array_access(toks, cur, Identifier(name_token.value))
    ELSE Ok(Identifier(name_token.value), cur)

\* TDXParser._parse_conditional (the IF token is already consumed)
parse_conditional(toks, cur) ==
    LET closed(condition, true_value, false_value, rp) ==
            IF ~rp.ok THEN rp
            ELSE Ok(ConditionalExpression(condition.node, true_value.node,
                                          false_value.node), rp.cur)
        third(condition, true_value, false_value) ==
            IF ~false_value.ok THEN false_value
            ELSE closed(condition, true_value, false_value,
                        consume(toks, false_value.cur, "RIGHT_PAREN"))
        comma2(condition, true_value, c2) ==
            IF ~c2.ok THEN c2
            ELSE third(condition, true_value, parse_expression(toks, c2.cur))
        second(condition, true_value) ==
            IF ~true_value.ok THEN true_value
            ELSE comma2(condition, true_value, consume(toks, true_value.cur, "COMMA"))
        comma1(condition, c1) ==
            IF ~c1.ok THEN c1 ELSE second(condition, parse_expression(toks, c1.cur))
        first(condition) ==
            IF ~condition.ok THEN condition
            ELSE comma1(condition, consume(toks, condition.cur, "COMMA"))
        opened(lp) ==
            IF ~lp.ok THEN lp ELSE first(parse_expression(toks, lp.cur))
    IN  opened(consume(toks, cur, "LEFT_PAREN"))

\* TDXParser._parse_prefix.  _advance does not move at the end of the input
\* and hands back the previous token again; when that token is `(`, `-` or
\* NOT the method re-enters itself in the same state without end, which
\* Python stops with a RecursionError.
parse_prefix(toks, cur) ==
    LET closed(expr, rp) == IF ~rp.ok THEN rp ELSE Ok(expr.node, rp.cur)
        grouped(expr) ==
            IF ~expr.ok THEN expr
            ELSE closed(expr, consume(toks, expr.cur, "RIGHT_PAREN"))
        unary(token, operand) ==
            IF ~operand.ok THEN operand
            ELSE Ok(UnaryOperation(token.value, operand.node), operand.cur)
        prefix(token, c1) ==
            IF token.type = "NUMBER" THEN Ok(NumberLiteral(token.value), c1)
            ELSE IF token.type = "STRING" THEN Ok(StringLiteral(token.value), c1)
            ELSE IF token.type = "IDENTIFIER" THEN parse_identifier_or_call(toks, c1, token)
            ELSE IF token.type \in {"LEFT_PAREN", "MINUS", "NOT"} /\ c1 = cur
            THEN Raise("RecursionError", "maximum recursion depth exceeded", c1)
            ELSE IF token.type = "LEFT_PAREN" THEN grouped(parse_expression(toks, c1))
            ELSE IF token.type \in {"MINUS", "NOT"}
            THEN unary(token, parse_precedence(toks, c1, Precedence_UNARY))
            ELSE IF token.type = "IF" THEN parse_conditional(toks, c1)
            ELSE Raise("TDXSyntaxError", "Unexpected token", c1)
    IN  prefix(previous(toks, advance(toks, cur)), advance(toks, cur))

\* TDXParser._check_assignment: IDENTIFIER followed by ASSIGN
check_assignment(toks, cur) ==
    IF ~check(toks, cur, "IDENTIFIER") THEN FALSE
    ELSE IF cur + 1 < Len(toks) THEN toks[cur + 2].type = "ASSIGN"
    ELSE FALSE

\* TDXParser._parse_assignment
parse_assignment(toks, cur) ==
    LET assigned(name_token, value) ==
            IF ~value.ok THEN value
            ELSE Ok(Assignment(name_token.node.value, value.node), value.cur)
        target(name_token, assign) ==
            IF ~assign.ok THEN assign
            ELSE assigned(name_token, parse_expression(toks, assign.cur))
        named(name_token) ==
            IF ~name_token.ok THEN name_token
            ELSE target(name_token, consume(toks, name_token.cur, "ASSIGN"))
    IN  named(consume(toks, cur, "IDENTIFIER"))

\* TDXParser._parse_statement: an assignment or an expression, then an
\* optional semicolon
parse_statement(toks, cur) ==
    LET terminated(stmt) ==
            IF ~stmt.ok THEN stmt
            ELSE IF check(toks, stmt.cur, "SEMICOLON")
            THEN Ok(stmt.node, advance(toks, stmt.cur))
            ELSE stmt
    IN  terminated(IF check_assignment(toks, cur) THEN parse_assignment(toks, cur)
                   ELSE parse_expression(toks, cur))

\* The while loop of TDXParser.parse
RECURSIVE parse_statements(_, _, _)
parse_statements(toks, cur, statements) ==
    LET next(stmt) ==
            IF ~stmt.ok THEN stmt
            ELSE parse_statements(toks, stmt.cur, Append(statements, stmt.node))
    IN  IF is_at_end(toks, cur) THEN Ok(Program(statements), cur)
        ELSE IF check(toks, cur, "NEWLINE")
        THEN parse_statements(toks, advance(toks, cur), statements)
        ELSE next(parse_statement(toks, cur))

\* TDXParser.parse: a TDXSyntaxError passes through, any other exception is
\* re-raised as a TDXSyntaxError with the original as its cause
parse(toks) ==
    LET reraise(r) ==
            IF r.ok THEN r
            ELSE IF r.error = "TDXSyntaxError" THEN r
            ELSE Raise("TDXSyntaxError", r.error, r.cur)
    IN  reraise(parse_statements(toks, 0, <<>>))

----------------------------------------------------------------------------
(* pandas.  A Series built by pd.Series(x) from a scalar x has the one row *)
(* 0; pd.Series(s) of a Series is s.  Arithmetic between two Series aligns *)
(* them on the union of their indexes and fills the rows one side lacks    *)
(* with nan; a comparison of two Series whose indexes differ raises        *)
(* ValueError.                                                             *)

EvalOk(value) == [ok |-> TRUE, value |-> value]
EvalRaise(error, cause) == [ok |-> FALSE, error |-> error, cause |-> cause]

\* bool -> 0/1 where numpy or Python coerce it in arithmetic
ToNumber(e) ==
    IF IsBool(e) THEN (IF e.bool THEN Rat(1, 1) ELSE Rat(0, 1))
    ELSE IF IsNpFloat(e) THEN e.np
    ELSE e

\* pd.Series(x): the rows of the Series
pd_Series(x) ==
    IF IsSeries(x) THEN x.series ELSE IF IsNpFloat(x) THEN <<x.np>> ELSE <<x>>

IsBoolSeries(rows) == \A i \in DOMAIN rows : IsBool(rows[i])

Max(a, b) == IF a >= b THEN a ELSE b

ArithmeticOperators == {"+", "-", "*", "/", "%", "^"}
ComparisonOperators == {"=", "<>", "!=", ">", "<", ">=", "<="}

\* One float64 operation of the elementwise kernels
float_arith(op, a, b) ==
    CASE op = "+" -> float_add(a, b)
      [] op = "-" -> float_sub(a, b)
      [] op = "*" -> float_mul(a, b)
      [] op = "/" -> float_div(a, b)
      [] op = "%" -> float_mod(a, b)
      [] op = "^" -> float_pow(a, b)

float_compare(op, a, b) ==
    CASE op = "=" -> float_eq(a, b)
      [] op \in {"<>", "!="} -> ~float_eq(a, b)
      [] op = ">" -> float_lt(b, a)
      [] op = "<" -> float_lt(a, b)
      [] op = ">=" -> float_lt(b, a) \/ float_eq(a, b)
      [] op = "<=" -> float_lt(a, b) \/ float_eq(a, b)

\* Series.__add__ and the other arithmetic methods: align, then the kernel.
\* Arithmetic between two bool Series is outside the model.
series_arith(op, l, r) ==
    CASE ~(IsBoolSeries(l) /\ IsBoolSeries(r)) ->
        EvalOk(Series([i \in 1..Max(Len(l), Len(r)) |->
                          IF i <= Len(l) /\ i <= Len(r)
                          THEN float_arith(op, ToNumber(l[i]), ToNumber(r[i]))
                          ELSE NaN]))

\* Series.__eq__ and the other comparison methods
series_compare(op, l, r) ==
    IF Len(l) # Len(r)
    THEN EvalRaise("ValueError", "Can only compare identically-labeled Series objects")
    ELSE EvalOk(Series([i \in 1..Len(l) |->
                           PyBool(float_compare(op, ToNumber(l[i]), ToNumber(r[i])))]))

\* Series.__and__ / __or__ of two bool Series: align, a missing row is False
series_logical(op, l, r) ==
    CASE IsBoolSeries(l) /\ IsBoolSeries(r) ->
        EvalOk(Series([i \in 1..Max(Len(l), Len(r)) |->
                          LET a == IF i <= Len(l) THEN l[i].bool ELSE FALSE
                              b == IF i <= Len(r) THEN r[i].bool ELSE FALSE
                          IN  PyBool(IF op = "AND" THEN a /\ b ELSE a \/ b)]))

----------------------------------------------------------------------------
(* Python's own operators on two scalars (neither operand a Series).       *)

\* bool(value): ASTEvaluator._is_true on a scalar, and `not`, `and`, `or`
Truthy(v) ==
    CASE IsBool(v) -> v.bool
      [] IsNumber(v) -> ~IsZero(v)
      [] IsNpFloat(v) -> ~IsZero(v.np)
      [] IsString(v) -> v.str # ""

IsNumeric(v) == IsNumber(v) \/ IsBool(v) \/ IsNpFloat(v)

\* left op right for + - * / % ** on numbers.  With a numpy scalar on either
\* side the float64 kernel applies; between Python numbers a zero divisor
\* raises ZeroDivisionError.  Strings are outside the model.
python_arith(op, left, right) ==
    CASE IsNumeric(left) /\ IsNumeric(right) /\ (IsNpFloat(left) \/ IsNpFloat(right)) ->
            EvalOk(NpFloat(float_arith(op, ToNumber(left), ToNumber(right))))
      [] IsNumeric(left) /\ IsNumeric(right) /\ ~(IsNpFloat(left) \/ IsNpFloat(right)) ->
            LET a == ToNumber(left)
                b == ToNumber(right)
            IN  IF op \in {"/", "%"} /\ IsZero(b)
                THEN EvalRaise("ZeroDivisionError", "division by zero")
                ELSE IF op = "^" /\ IsZero(a) /\ b.num < 0
                THEN EvalRaise("ZeroDivisionError", "0.0 cannot be raised to a negative power")
                ELSE EvalOk(float_arith(op, a, b))

\* left op right for == != > < >= <=; == and != accept any two values
python_compare(op, left, right) ==
    CASE IsNumeric(left) /\ IsNumeric(right) ->
            EvalOk(PyBool(float_compare(op, ToNumber(left), ToNumber(right))))
      [] ~(IsNumeric(left) /\ IsNumeric(right)) /\ op = "=" -> EvalOk(PyBool(left = right))
      [] ~(IsNumeric(left) /\ IsNumeric(right)) /\ op \in {"<>", "!="} ->
            EvalOk(PyBool(left # right))

----------------------------------------------------------------------------
(* functions/base.py and functions/registry.py.  A registered function is  *)
(* [name, parameters, calculate]: parameters is the sequence of its        *)
(* Parameter objects, calculate names its body.                            *)

Parameter(name, param_type, has_min, min_value) ==
    [name |-> name, param_type |-> param_type, required |-> TRUE,
     has_min |-> has_min, min_value |-> min_value]

\* Parameter._validate_type
validate_type(param, value) ==
    CASE param.param_type = "NUMBER" ->
            IF IsNumeric(value) THEN EvalOk(ToNumber(value))
            ELSE IF IsSeries(value) THEN EvalOk(value)
            ELSE EvalRaise("TDXTypeError", "must be a number or series")
      [] param.param_type = "SERIES" ->
            IF IsSeries(value) THEN EvalOk(value)
            ELSE EvalRaise("TDXTypeError", "must be a series")
      [] param.param_type = "INTEGER" ->
            IF (IsNumber(value) \/ IsBool(value) \/ IsNpFloat(value))
               /\ IsInteger(ToNumber(value))
            THEN EvalOk(ToNumber(value))
            ELSE EvalRaise("TDXTypeError", "must be an integer")
      [] param.param_type = "ANY" -> EvalOk(value)

\* Parameter._validate_range (no function of the model sets max_value, and
\* none gives a min_value to a parameter that accepts a Series)
validate_range(param, value) ==
    CASE ~param.has_min -> EvalOk(value)
      [] param.has_min /\ ~IsSeries(value) ->
            IF float_lt(value, Rat(param.min_value, 1))
            THEN EvalRaise("TDXValueError", "below min_value")
            ELSE EvalOk(value)

\* Parameter.validate of a value that is not None
validate(param, value) ==
    LET ranged(typed) ==
            IF ~typed.ok THEN typed
            ELSE IF param.param_type \in {"NUMBER", "INTEGER"}
            THEN validate_range(param, typed.value)
            ELSE typed
    IN  ranged(validate_type(param, value))

\* The for loop of TDXFunction._validate_arguments over the parameters
RECURSIVE validate_each(_, _, _)
validate_each(parameters, args, i) ==
    LET collected(v, rest) ==
            IF ~rest.ok THEN rest ELSE EvalOk(<<v.value>> \o rest.value)
        checked(v) ==
            IF ~v.ok THEN v
            ELSE collected(v, validate_each(parameters, args, i + 1))
    IN  IF i > Len(parameters) THEN EvalOk(<<>>)
        ELSE checked(validate(parameters[i], args[i]))

\* TDXFunction._validate_arguments (every parameter of the model is required)
validate_arguments(function, args) ==
    IF Len(args) < Len(function.parameters)
    THEN EvalRaise("TDXArgumentError", "requires at least")
    ELSE IF Len(args) > Len(function.parameters)
    THEN EvalRaise("TDXArgumentError", "accepts at most")
    ELSE validate_each(function.parameters, args, 1)

\* Series.rolling(window=period, min_periods=1).mean() over finite or nan rows
rolling_mean(rows, period) ==
    LET mean(window, i) ==
            LET total[j \in 0..i] ==
                    IF j = 0 THEN Rat(0, 1)
                    ELSE IF j \in window THEN float_add(total[j - 1], rows[j])
                    ELSE total[j - 1]
            IN  IF window = {} THEN NaN
                ELSE float_div(total[i], Rat(Cardinality(window), 1))
    IN  [i \in 1..Len(rows) |->
            mean({j \in 1..i : j > i - period /\ ~IsNaN(rows[j])}, i)]

\* The calculate methods: MAFunction.calculate, ABSFunction.calculate, and the
\* body of a function the user registered, of which only the call is known
calculate(function, args) ==
    CASE function.calculate = "MA" ->
            EvalOk(Series(rolling_mean(args[1].series, args[2].num)))
      [] function.calculate = "ABS" ->
            IF IsSeries(args[1])
            THEN EvalOk(Series([i \in DOMAIN args[1].series |->
                                   [args[1].series[i] EXCEPT !.num = Abs(@)]]))
            ELSE EvalOk([args[1] EXCEPT !.num = Abs(@)])
      [] function.calculate = "custom" ->
            EvalOk([called |-> function.impl, with |-> args])

\* TDXFunction.__call__: no calculate of the model raises
function_call(function, args) ==
    LET run(validated) ==
            IF ~validated.ok THEN validated ELSE calculate(function, validated.value)
    IN  run(validate_arguments(function, args))

\* FunctionRegistry.get and FunctionRegistry.call; reg is registry._functions
registry_call(reg, name, args) ==
    IF name \in DOMAIN reg THEN function_call(reg[name], args)
    ELSE EvalRaise("TDXNameError", "Function is not defined")

\* The built-in functions of the model, as register_all registers them
MAFunction ==
    [name |-> "MA", category |-> "TECHNICAL", calculate |-> "MA",
     impl |-> "MAFunction",
     parameters |-> <<Parameter("data", "SERIES", FALSE, 0),
                      Parameter("period", "INTEGER", TRUE, 1)>>]
ABSFunction ==
    [name |-> "ABS", category |-> "MATHEMATICAL", calculate |-> "ABS",
     impl |-> "ABSFunction",
     parameters |-> <<Parameter("data", "NUMBER", FALSE, 0)>>]

BuiltinRegistry ==
    [n \in {"MA", "ABS"} |-> IF n = "MA" THEN MAFunction ELSE ABSFunction]

\* functions/base.py FunctionCategory
FunctionCategory ==
    {"TECHNICAL", "MATHEMATICAL", "LOGICAL", "TEMPORAL", "STATISTICAL", "UTILITY"}

\* _categories is a defaultdict(set): a category without functions is empty
BuiltinCategories ==
    [c \in FunctionCategory |-> {n \in DOMAIN BuiltinRegistry : BuiltinRegistry[n].category = c}]

\* create_simple_function(name, category, ..., parameters, calculate_func) as
\* TDXInterpreter.register_function calls it
SimpleTDXFunction(name, category, func) ==
    [name |-> name, category |-> category, calculate |-> "custom", impl |-> func,
     parameters |-> <<Parameter("data", "SERIES", FALSE, 0),
                      Parameter("period", "INTEGER", FALSE, 0)>>]

\* str.upper() on the names of the model
name_upper(name) ==
    CASE name = "f" -> "F"
      [] name = "g" -> "G"
      [] name = "ma" -> "MA"
      [] OTHER -> name

\* A FunctionRegistry is [functions, aliases, categories]; register and
\* unregister return the registry they leave behind with their outcome
RegistryOk(reg, value) == [ok |-> TRUE, value |-> value, registry |-> reg]
RegistryRaise(reg, error) == [ok |-> FALSE, error |-> error, registry |-> reg]

\* The loop over aliases in FunctionRegistry.register: each alias is stored
\* as soon as it is found free, the first one in use raises ValueError
RECURSIVE register_aliases(_, _, _, _)
register_aliases(reg, name, alias_list, i) ==
    LET alias == name_upper(alias_list[i])
        stored ==
            [reg EXCEPT !.aliases =
                [a \in DOMAIN reg.aliases \cup {alias} |->
                    IF a = alias THEN name ELSE reg.aliases[a]]]
    IN  IF i > Len(alias_list) THEN RegistryOk(reg, PyNone)
        ELSE IF alias \in DOMAIN reg.functions \/ alias \in DOMAIN reg.aliases
        THEN RegistryRaise(reg, "ValueError")
        ELSE register_aliases(stored, name, alias_list, i + 1)

\* FunctionRegistry.register(function, aliases): the name is checked against
\* _functions, the function and its category entry are stored, then the
\* aliases are gone through
registry_register(reg, function, alias_list) ==
    LET name == name_upper(function.name)
        stored ==
            [reg EXCEPT
                !.functions =
                    [n \in DOMAIN reg.functions \cup {name} |->
                        IF n = name THEN function ELSE reg.functions[n]],
                !.categories[function.category] = @ \cup {name}]
    IN  IF name \in DOMAIN reg.functions THEN RegistryRaise(reg, "ValueError")
        ELSE register_aliases(stored, name, alias_list, 1)

\* FunctionRegistry.unregister(name): the function, its category entry and
\* the aliases that point to it go
registry_unregister(reg, name) ==
    LET upper == name_upper(name)
        kept == {a \in DOMAIN reg.aliases : reg.aliases[a] # upper}
    IN  IF upper \notin DOMAIN reg.functions THEN RegistryRaise(reg, "TDXNameError")
        ELSE RegistryOk(
                 [functions |-> [n \in DOMAIN reg.functions \ {upper} |-> reg.functions[n]],
                  aliases |-> [a \in kept |-> reg.aliases[a]],
                  categories |->
                      [reg.categories EXCEPT
                          ![reg.functions[upper].category] = @ \ {upper}]],
                 PyNone)

\* FunctionRegistry.get(name): a function name first, then an alias
registry_get(reg, name) ==
    LET upper == name_upper(name)
    IN  IF upper \in DOMAIN reg.functions THEN RegistryOk(reg, reg.functions[upper])
        ELSE IF upper \in DOMAIN reg.aliases
        THEN RegistryOk(reg, reg.functions[reg.aliases[upper]])
        ELSE RegistryRaise(reg, "TDXNameError")

\* FunctionRegistry.has(name)
registry_has(reg, name) ==
    name_upper(name) \in DOMAIN reg.functions \/ name_upper(name) \in DOMAIN reg.aliases

----------------------------------------------------------------------------
(* core/context.py.  A context is [scopes, data, functions]: scopes is the *)
(* stack of name -> value maps, innermost last; data is None or            *)
(* [frame |-> column name -> rows]; functions is the set of names in       *)
(* TDXContext._functions.                                                  *)

builtin_vars == {"OPEN", "HIGH", "LOW", "CLOSE", "VOLUME", "AMOUNT"}

DataFrame(columns) == [frame |-> columns]

\* The scope search of TDXContext.get_variable, from scope i inwards to out
RECURSIVE scope_lookup(_, _, _)
scope_lookup(stack, name, i) ==
    IF i = 0 THEN EvalRaise("TDXNameError", "Variable is not defined")
    ELSE IF name \in DOMAIN stack[i] THEN EvalOk(stack[i][name])
    ELSE scope_lookup(stack, name, i - 1)

\* TDXContext.get_variable
get_variable(ctx, name) ==
    IF /\ name \in builtin_vars
       /\ ctx.data # PyNone
       /\ name \in DOMAIN ctx.data.frame
    THEN EvalOk(Series(ctx.data.frame[name]))
    ELSE scope_lookup(ctx.scopes, name, Len(ctx.scopes))

\* TDXContext.push_scope: the new scope stack
push_scope(stack) == Append(stack, <<>>)

\* A pop_scope that does nothing, silently, on the global scope
pop_scope_silent(stack) ==
    IF Len(stack) <= 1 THEN [result |-> EvalOk(PyNone), scopes |-> stack]
    ELSE [result |-> EvalOk(PyNone), scopes |-> SubSeq(stack, 1, Len(stack) - 1)]

\* TDXContext.pop_scope: what the call returned or raised, and the new stack
pop_scope(stack) ==
    IF Len(stack) <= 1
    THEN [result |-> EvalRaise("TDXRuntimeError", "Cannot pop global scope"),
          scopes |-> stack]
    ELSE [result |-> EvalOk(PyNone), scopes |-> SubSeq(stack, 1, Len(stack) - 1)]

\* TDXContext.clear: the functions after _init_builtin_functions and the
\* update with the custom functions
clear_functions(funcs) ==
    [n \in DOMAIN funcs \cup {"MA", "SUM", "MAX", "MIN"} |->
        IF n \in {"MA", "SUM", "MAX", "MIN"} THEN "lambda" ELSE funcs[n]]

\* A set_variable that writes the outermost scope
set_variable_global(stack, name, value) ==
    [stack EXCEPT ![1] =
        [n \in DOMAIN @ \cup {name} |-> IF n = name THEN value ELSE @[n]]]

\* A Context that drops every assignment
set_variable_dropped(stack, name, value) == stack

\* TDXContext.set_variable: the new scope stack
set_variable(stack, name, value) ==
    [stack EXCEPT ![Len(stack)] =
        [n \in DOMAIN @ \cup {name} |-> IF n = name THEN value ELSE @[n]]]

----------------------------------------------------------------------------
(* core/evaluator.py.  A visit method returns EvalOk(value) or             *)
(* EvalRaise(error, cause): the class of the exception that leaves it and, *)
(* for an exception raised `from e`, the class of e.                       *)

\* ASTEvaluator._add, _subtract, _multiply, _divide, _modulo, _power
arithmetic(op, left, right) ==
    IF IsSeries(left) \/ IsSeries(right)
    THEN series_arith(op, pd_Series(left), pd_Series(right))
    ELSE python_arith(op, left, right)

\* ASTEvaluator._equal, _not_equal, _greater, _less, _greater_equal, _less_equal
comparison(op, left, right) ==
    IF IsSeries(left) \/ IsSeries(right)
    THEN series_compare(op, pd_Series(left), pd_Series(right))
    ELSE python_compare(op, left, right)

\* ASTEvaluator._and, _or: `left and right`, `left or right` on scalars
logical(op, left, right) ==
    IF IsSeries(left) \/ IsSeries(right)
    THEN series_logical(op, pd_Series(left), pd_Series(right))
    ELSE IF op = "AND" THEN EvalOk(IF Truthy(left) THEN right ELSE left)
    ELSE EvalOk(IF Truthy(left) THEN left ELSE right)

\* The operator dispatch of visit_binary_operation, inside its try block
binary_dispatch(operator, left, right) ==
    IF ~IsString(operator) THEN EvalRaise("TDXRuntimeError", "Unknown binary operator")
    ELSE IF operator.str \in ArithmeticOperators
    THEN arithmetic(operator.str, left, right)
    ELSE IF operator.str \in ComparisonOperators
    THEN comparison(operator.str, left, right)
    ELSE IF operator.str \in {"AND", "OR"} THEN logical(operator.str, left, right)
    ELSE EvalRaise("TDXRuntimeError", "Unknown binary operator")

\* ASTEvaluator._negate and _not, inside the try block of visit_unary_operation
unary_dispatch(operator, operand) ==
    CASE operator.str = "-" /\ IsSeries(operand) /\ ~IsBoolSeries(operand.series) ->
            EvalOk(Series([i \in DOMAIN operand.series |-> float_neg(operand.series[i])]))
      [] operator.str = "-" /\ IsNumber(operand) -> EvalOk(float_neg(operand))
      [] operator.str = "-" /\ IsNpFloat(operand) -> EvalOk(NpFloat(float_neg(operand.np)))
      [] operator.str = "-" /\ IsBool(operand) -> EvalOk(float_neg(ToNumber(operand)))
      [] operator.str = "NOT" /\ IsSeries(operand) /\ IsBoolSeries(operand.series) ->
            EvalOk(Series([i \in DOMAIN operand.series |->
                              PyBool(~operand.series[i].bool)]))
      [] operator.str = "NOT" /\ IsSeries(operand) /\ ~IsBoolSeries(operand.series) ->
            EvalRaise("TypeError", "bad operand type for unary ~: 'float'")
      [] operator.str = "NOT" /\ ~IsSeries(operand) -> EvalOk(PyBool(~Truthy(operand)))

\* `except Exception as e: raise TDXRuntimeError(...) from e`
wrap_runtime_error(r) == IF r.ok THEN r ELSE EvalRaise("TDXRuntimeError", r.error)

\* int(index): truncation toward zero of a finite number
int(q) == IF q.num >= 0 THEN q.num \div q.den ELSE -((-q.num) \div q.den)

\* Series.iloc[idx]: the element at position idx, counted from the end for a
\* negative idx; a float64 element comes back as a numpy scalar
iloc(rows, idx) ==
    LET scalar(e) == IF IsBool(e) THEN e ELSE NpFloat(e)
    IN  IF idx >= Len(rows) \/ idx < -Len(rows)
        THEN EvalRaise("IndexError", "single positional indexer is out-of-bounds")
        ELSE EvalOk(scalar(rows[IF idx < 0 THEN Len(rows) + idx + 1 ELSE idx + 1]))

\* The try block of visit_array_access: array.iloc[int(index)]
array_access(array, index) ==
    IF ~IsSeries(array) THEN EvalRaise("TDXTypeError", "Array access requires a series")
    ELSE IF ~IsNumeric(index) THEN EvalRaise("TDXTypeError", "Array index must be a number")
    ELSE IF IsNaN(ToNumber(index)) THEN EvalRaise("ValueError", "cannot convert float NaN to integer")
    ELSE IF IsInf(ToNumber(index))
    THEN EvalRaise("OverflowError", "cannot convert float infinity to integer")
    ELSE iloc(array.series, int(ToNumber(index)))

\* ASTEvaluator._is_true: Series.all() for a Series
is_true(value) ==
    IF IsSeries(value)
    THEN \A i \in DOMAIN value.series :
            IF IsBool(value.series[i]) THEN value.series[i].bool
            ELSE ~IsZero(value.series[i])
    ELSE Truthy(value)

RECURSIVE visit(_, _, _)
RECURSIVE visit_conditional_expression(_, _, _)
RECURSIVE visit_arguments(_, _, _, _)

\* `[arg.accept(self) for arg in node.arguments]`, from argument i on
visit_arguments(arguments, i, ctx, reg) ==
    LET collected(v, rest) ==
            IF ~rest.ok THEN rest ELSE EvalOk(<<v.value>> \o rest.value)
        visited(v) ==
            IF ~v.ok THEN v
            ELSE collected(v, visit_arguments(arguments, i + 1, ctx, reg))
    IN  IF i > Len(arguments) THEN EvalOk(<<>>)
        ELSE visited(visit(arguments[i], ctx, reg))

\* A conditional that evaluates both branches before it selects one
visit_conditional_eager(node, ctx, reg) ==
    LET selected(condition, true_value, false_value) ==
            IF ~false_value.ok THEN false_value
            ELSE IF is_true(condition.value) THEN true_value
            ELSE false_value
        branches(condition, true_value) ==
            IF ~true_value.ok THEN true_value
            ELSE selected(condition, true_value, visit(node.false_value, ctx, reg))
        conditional(condition) ==
            IF ~condition.ok THEN condition
            ELSE branches(condition, visit(node.true_value, ctx, reg))
    IN  conditional(visit(node.condition, ctx, reg))

\* ASTEvaluator.visit_conditional_expression
visit_conditional_expression(node, ctx, reg) ==
    LET conditional(condition) ==
            IF ~condition.ok THEN condition
            ELSE IF is_true(condition.value) THEN visit(node.true_value, ctx, reg)
            ELSE visit(node.false_value, ctx, reg)
    IN  conditional(visit(node.condition, ctx, reg))

\* node.accept(evaluator) for an expression node: visit_number_literal,
\* visit_string_literal, visit_identifier, visit_binary_operation,
\* visit_unary_operation, visit_function_call, visit_conditional_expression,
\* visit_array_access.  reg is the module-level registry the evaluator imports.
visit(node, ctx, reg) ==
    LET binary(left, right) ==
            IF ~right.ok THEN right
            ELSE wrap_runtime_error(binary_dispatch(node.operator, left.value, right.value))
        binary_left(left) ==
            IF ~left.ok THEN left ELSE binary(left, visit(node.right, ctx, reg))
        unary(operand) ==
            IF ~operand.ok THEN operand
            ELSE wrap_runtime_error(unary_dispatch(node.operator, operand.value))
        call(args) ==
            IF ~args.ok THEN args
            ELSE wrap_runtime_error(registry_call(reg, node.name.str, args.value))
        access(array, index) ==
            IF ~index.ok THEN index
            ELSE wrap_runtime_error(array_access(array.value, index.value))
        access_array(array) ==
            IF ~array.ok THEN array ELSE access(array, visit(node.index, ctx, reg))
    IN  CASE node.kind \in {"NumberLiteral", "StringLiteral"} -> EvalOk(node.value)
          [] node.kind = "Identifier" -> get_variable(ctx, node.name.str)
          [] node.kind = "BinaryOperation" -> binary_left(visit(node.left, ctx, reg))
          [] node.kind = "UnaryOperation" -> unary(visit(node.operand, ctx, reg))
          [] node.kind = "FunctionCall" ->
                call(visit_arguments(node.arguments, 1, ctx, reg))
          [] node.kind = "ConditionalExpression" ->
                visit_conditional_expression(node, ctx, reg)
          [] node.kind = "ArrayAccess" -> access_array(visit(node.array, ctx, reg))

\* A statement loop that returns the value of the first statement instead
\* of the last
RECURSIVE visit_program_first(_, _, _, _, _)
visit_program_first(body, i, ctx, reg, last) ==
    LET executed(statement, value) ==
            IF ~value.ok THEN [result |-> value, scopes |-> ctx.scopes]
            ELSE visit_program_first(body, i + 1,
                     [ctx EXCEPT !.scopes =
                         IF statement.kind = "Assignment"
                         THEN set_variable(ctx.scopes, statement.name.str, value.value)
                         ELSE ctx.scopes],
                     reg, IF i = 1 THEN value.value ELSE last)
        execute(statement) ==
            executed(statement,
                     visit(IF statement.kind = "Assignment" THEN statement.value
                           ELSE statement, ctx, reg))
    IN  IF i > Len(body) THEN [result |-> EvalOk(last), scopes |-> ctx.scopes]
        ELSE execute(body[i])

\* ASTEvaluator.visit_program from statement i on.  The parser builds
\* Assignment nodes only as whole statements, so visit_assignment is applied
\* here: it stores into the innermost scope.  The outcome is
\* [result, scopes]: what the loop returned or raised, and the scope stack
\* it left behind.
RECURSIVE visit_program(_, _, _, _, _)
visit_program(body, i, ctx, reg, last) ==
    LET executed(statement, value) ==
            IF ~value.ok THEN [result |-> value, scopes |-> ctx.scopes]
            ELSE visit_program(body, i + 1,
                     [ctx EXCEPT !.scopes =
                         IF statement.kind = "Assignment"
                         THEN set_variable(ctx.scopes, statement.name.str, value.value)
                         ELSE ctx.scopes],
                     reg, value.value)
        execute(statement) ==
            executed(statement,
                     visit(IF statement.kind = "Assignment" THEN statement.value
                           ELSE statement, ctx, reg))
    IN  IF i > Len(body) THEN [result |-> EvalOk(last), scopes |-> ctx.scopes]
        ELSE execute(body[i])

----------------------------------------------------------------------------
(* core/interpreter.py: a TDXInterpreter with its TDXContext.              *)

\* The classes derived from TDXError
TDXErrors ==
    {"TDXSyntaxError", "TDXRuntimeError", "TDXTypeError", "TDXNameError",
     "TDXValueError", "TDXArgumentError"}

\* TDXContext.__init__ with _init_builtin_functions, and the registry as
\* functions/__init__.py fills it
ContextInit ==
    /\ data = PyNone
    /\ scopes = <<<<>>>>
    /\ functions = [n \in {"MA", "SUM", "MAX", "MIN"} |-> "lambda"]
    /\ registry = BuiltinRegistry
    /\ aliases = <<>>
    /\ categories = BuiltinCategories
    /\ other = [data |-> PyNone, scopes |-> <<<<>>>>,
                functions |-> [n \in {"MA", "SUM", "MAX", "MIN"} |-> "lambda"],
                result |-> PyNone]
    /\ result = PyNone

\* A transactional evaluate: a program that raises leaves the scopes as they
\* were before it started
interpreter_evaluate_transactional(formula, ctx, reg) ==
    LET evaluated(ast, run) ==
            [ast |-> ast,
             scopes |-> IF run.result.ok THEN run.scopes ELSE ctx.scopes,
             result |-> IF run.result.ok \/ run.result.error \in TDXErrors
                        THEN run.result
                        ELSE EvalRaise("TDXRuntimeError", run.result.error)]
        parsed_as(ast) ==
            IF ~ast.ok
            THEN [ast |-> ast, scopes |-> ctx.scopes,
                  result |-> EvalRaise(ast.error, ast.cause)]
            ELSE evaluated(ast, visit_program(ast.node.body, 1, ctx, reg, PyNone))
    IN  parsed_as(parse(formula))

\* TDXInterpreter.evaluate after the data is set: tokenize is taken as done
\* (formula is its token sequence), then parse, then ASTEvaluator.evaluate.
\* An exception that is no TDXError is re-raised as TDXRuntimeError.  The
\* outcome is [ast, result, scopes].
interpreter_evaluate(formula, ctx, reg) ==
    LET evaluated(ast, run) ==
            [ast |-> ast, scopes |-> run.scopes,
             result |-> IF run.result.ok \/ run.result.error \in TDXErrors
                        THEN run.result
                        ELSE EvalRaise("TDXRuntimeError", run.result.error)]
        parsed_as(ast) ==
            IF ~ast.ok
            THEN [ast |-> ast, scopes |-> ctx.scopes,
                  result |-> EvalRaise(ast.error, ast.cause)]
            ELSE evaluated(ast, visit_program(ast.node.body, 1, ctx, reg, PyNone))
    IN  parsed_as(parse(formula))

\* TDXInterpreter.parse(text): tokenize, then parse; any exception that is
\* no TDXError is re-raised as TDXSyntaxError
interpreter_parse(text) ==
    LET tokenized(lexemes) ==
            IF ~lexemes.ok THEN Raise(lexemes.error, "", lexemes.position)
            ELSE parse(lexemes.tokens)
    IN  tokenized(tokenize(text))

\* A validate that evaluates the formula in the Context
validate_by_evaluating(text) ==
    LET evaluated(ast) ==
            IF ~ast.ok THEN FALSE
            ELSE visit_program(ast.node.body, 1,
                     [scopes |-> scopes, data |-> data, functions |-> functions],
                     registry, PyNone).result.ok
    IN  evaluated(interpreter_parse(text))

\* TDXInterpreter.validate(text): False for a TDXError of parse, else True
interpreter_validate(text) == interpreter_parse(text).ok

\* TDXInterpreter.evaluate(formula, context): context is None or a dict of
\* columns, which set_data binds before anything else
Evaluate(formula, context) ==
    LET outcome(bound, run) ==
            /\ data' = bound
            /\ tokens' = formula
            /\ parsed' = run.ast
            /\ scopes' = run.scopes
            /\ result' = run.result
        call(bound) ==
            outcome(bound,
                    interpreter_evaluate(formula,
                        [scopes |-> scopes, data |-> bound, functions |-> functions],
                        registry))
    IN  /\ pc = "idle"
        /\ call(IF context = PyNone THEN data ELSE DataFrame(context))
        /\ pc' = "returned"
        /\ UNCHANGED <<lexer_text, lexed, functions, registry>>
        /\ UNCHANGED <<aliases, categories, other>>

\* The caller takes the outcome of evaluate and goes on
Return ==
    /\ pc = "returned"
    /\ pc' = "idle"
    /\ tokens' = <<>>
    /\ parsed' = PyNone
    /\ result' = PyNone
    /\ UNCHANGED <<lexer_text, lexed, data, scopes, functions, registry>>
    /\ UNCHANGED <<aliases, categories, other>>

\* TDXContext.set_data(dict), called on interpreter.get_context()
SetData(table) ==
    /\ pc = "idle"
    /\ data' = DataFrame(table)
    /\ UNCHANGED <<lexer_text, lexed, tokens, parsed, pc, scopes, functions, registry, result>>
    /\ UNCHANGED <<aliases, categories, other>>

\* TDXContext.register_function(name, func): name.upper() -> func
ContextRegisterFunction(name, func) ==
    /\ pc = "idle"
    /\ functions' = [n \in DOMAIN functions \cup {name} |->
                        IF n = name THEN func ELSE functions[n]]
    /\ UNCHANGED <<lexer_text, lexed, tokens, parsed, pc, data, scopes, registry, result>>
    /\ UNCHANGED <<aliases, categories, other>>

\* TDXInterpreter.register_function(name, func): a SimpleTDXFunction with the
\* parameters (data: SERIES, period: INTEGER) goes into the module-level
\* registry; FunctionRegistry.register raises ValueError for a name in use
InterpreterRegisterFunction(name, func) ==
    LET registered(outcome) ==
            /\ outcome.ok
            /\ registry' = outcome.registry.functions
            /\ aliases' = outcome.registry.aliases
            /\ categories' = outcome.registry.categories
    IN  /\ pc = "idle"
        /\ registered(registry_register(
                          [functions |-> registry, aliases |-> aliases,
                           categories |-> categories],
                          SimpleTDXFunction(name_upper(name), "UTILITY", func), <<>>))
        /\ UNCHANGED <<lexer_text, lexed, tokens, parsed, pc, data, scopes, functions, result>>
        /\ UNCHANGED other

----------------------------------------------------------------------------
(* The inputs of the interpreter: data tables and formulas.                *)

MaxIndex == 3
MaxPeriod == 2

Rows(ns) == [i \in DOMAIN ns |-> Rat(ns[i], 1)]

Table3 == [c \in {"CLOSE", "OPEN"} |-> IF c = "CLOSE" THEN Rows(<<1, 2, 3>>) ELSE Rows(<<2, 2, 2>>)]
Table2 == [c \in {"CLOSE", "X"} |-> IF c = "CLOSE" THEN Rows(<<0, 4>>) ELSE Rows(<<1, 1>>)]
Table1 == [c \in {"CLOSE", "volume"} |-> IF c = "CLOSE" THEN Rows(<<7>>) ELSE Rows(<<9>>)]
Tables == {Table3, Table2, Table1}

CustomNames == {"F"}

\* A single identifier
LookupFormulas ==
    {<<IdTok(n), EofTok>> : n \in {"CLOSE", "OPEN", "A", "X", "VOLUME", "UNDEFINED_NAME"}}

OperandTokens == {NumTok(0), NumTok(2), IdTok("CLOSE"), IdTok("OPEN"), IdTok("A")}

\* x op y for the arithmetic and comparison operators
BinaryFormulas ==
    {<<x, OpTok(op), y, EofTok>> :
        x \in OperandTokens, y \in OperandTokens,
        op \in {"+", "-", "*", "/", "%", "=", "<>", "!=", ">", "<", ">=", "<="}}

\* N := x
AssignFormulas ==
    {<<IdTok(n), OpTok(":="), x, EofTok>> :
        n \in {"A", "CLOSE"}, x \in {NumTok(5), IdTok("CLOSE")}}

\* X[n] and X[-n]
IndexFormulas ==
    {<<IdTok(x), DelimTok("["), NumTok(n), DelimTok("]"), EofTok>> :
        x \in {"CLOSE", "A"}, n \in 0..MaxIndex}
    \cup {<<IdTok(x), DelimTok("["), OpTok("-"), NumTok(n), DelimTok("]"), EofTok>> :
        x \in {"CLOSE", "A"}, n \in 1..MaxIndex}

\* Calls with right and wrong arguments, of known and unknown names
CallFormulas ==
    {<<IdTok(f), DelimTok("("), IdTok("CLOSE"), DelimTok(","), NumTok(n), DelimTok(")"), EofTok>> :
        f \in {"MA", "NOSUCH"} \cup CustomNames, n \in 0..MaxPeriod}
    \cup {<<IdTok(f), DelimTok("("), x, DelimTok(")"), EofTok>> :
        f \in {"MA", "ABS"} \cup CustomNames, x \in {NumTok(2), IdTok("CLOSE"), IdTok("A")}}
    \cup {<<IdTok("MA"), DelimTok("("), NumTok(1), DelimTok(","), NumTok(1), DelimTok(")"), EofTok>>,
          <<IdTok("ABS"), DelimTok("("), DelimTok(")"), EofTok>>}

\* Programs of several statements, and a syntax error
ProgramFormulas ==
    {<<IdTok("A"), OpTok(":="), NumTok(5), DelimTok(";"), IdTok("A"), OpTok("+"), NumTok(1), EofTok>>,
     <<NumTok(10), OpTok("-"), NumTok(3), OpTok("-"), NumTok(2), EofTok>>,
     <<IdTok("A"), OpTok(":="), NumTok(1), DelimTok(";"), NumTok(1), OpTok("/"), NumTok(0),
       DelimTok(";"), IdTok("A"), OpTok(":="), NumTok(2), EofTok>>,
     <<IdTok("MA"), DelimTok("("), IdTok("CLOSE"), DelimTok(","), NumTok(5), EofTok>>,
     <<IdTok("A"), OpTok(":="), NumTok(5), DelimTok(";"),
       IdTok("A"), OpTok(":="), IdTok("A"), OpTok("+"), NumTok(1), DelimTok(";"),
       IdTok("A"), EofTok>>,
     <<NumTok(1), OpTok("/"), NumTok(0), DelimTok(";"),
       IdTok("A"), OpTok(":="), NumTok(2), EofTok>>,
     <<EofTok>>}

\* Conditions: true and false scalars, a series, a comparison of series, an
\* undefined name
ConditionTokens ==
    {<<NumTok(1), OpTok(">"), NumTok(2)>>, <<NumTok(2), OpTok(">"), NumTok(1)>>,
     <<NumTok(0)>>, <<NumTok(2)>>, <<IdTok("CLOSE")>>, <<IdTok("A")>>,
     <<IdTok("CLOSE"), OpTok(">"), NumTok(1)>>,
     <<IdTok("CLOSE"), OpTok(">"), NumTok(0)>>}

\* Branches: values, and expressions that raise when they are evaluated
BranchTokens ==
    {<<NumTok(42)>>, <<NumTok(7)>>,
     <<IdTok("ERROR_CALL"), DelimTok("("), DelimTok(")")>>,
     <<NumTok(1), OpTok("/"), NumTok(0)>>}

\* IF ( c , t , e )
ConditionalFormulas ==
    {<<KwTok("IF"), DelimTok("(")>> \o c \o <<DelimTok(",")>> \o t
         \o <<DelimTok(",")>> \o e \o <<DelimTok(")"), EofTok>> :
        c \in ConditionTokens, t \in BranchTokens, e \in BranchTokens}

Formulas ==
    LookupFormulas \cup BinaryFormulas \cup AssignFormulas \cup IndexFormulas
        \cup CallFormulas \cup ProgramFormulas \cup ConditionalFormulas

Init ==
    /\ lexer_text = <<>>
    /\ lexed = PyNone
    /\ tokens = <<>>
    /\ parsed = PyNone
    /\ pc = "idle"
    /\ ContextInit

Next ==
    \/ \E formula \in Formulas, context \in {PyNone} \cup Tables : Evaluate(formula, context)
    \/ Return
    \/ \E table \in Tables : SetData(table)
    \/ \E name \in CustomNames : ContextRegisterFunction(name, "context_impl")
    \/ \E name \in CustomNames : InterpreterRegisterFunction(name, "interpreter_impl")

Spec == Init /\ [][Next]_vars

----------------------------------------------------------------------------
(* A TDXContext on its own, driven through its methods.  pc holds the call *)
(* just made, with its arguments, and result what it returned or raised.   *)

MaxScopes == 3

ContextNames == {"X", "CLOSE"}
ContextValues == {PyNum(1), PyNum(2)}

Call(method, name, value) == [call |-> method, name |-> name, value |-> value]

ContextSpecInit ==
    /\ lexer_text = <<>>
    /\ lexed = PyNone
    /\ tokens = <<>>
    /\ parsed = PyNone
    /\ pc = Call("__init__", "", PyNone)
    /\ ContextInit

\* context.push_scope()
PushScope ==
    /\ Len(scopes) < MaxScopes
    /\ scopes' = push_scope(scopes)
    /\ result' = EvalOk(PyNone)
    /\ pc' = Call("push_scope", "", PyNone)
    /\ UNCHANGED <<lexer_text, lexed, tokens, parsed, data, functions, registry>>
    /\ UNCHANGED <<aliases, categories, other>>

\* context.pop_scope()
PopScope ==
    /\ scopes' = pop_scope(scopes).scopes
    /\ result' = pop_scope(scopes).result
    /\ pc' = Call("pop_scope", "", PyNone)
    /\ UNCHANGED <<lexer_text, lexed, tokens, parsed, data, functions, registry>>
    /\ UNCHANGED <<aliases, categories, other>>

\* context.set_variable(name, value)
SetVariable(name, value) ==
    /\ scopes' = set_variable(scopes, name, value)
    /\ result' = EvalOk(PyNone)
    /\ pc' = Call("set_variable", name, value)
    /\ UNCHANGED <<lexer_text, lexed, tokens, parsed, data, functions, registry>>
    /\ UNCHANGED <<aliases, categories, other>>

\* context.get_variable(name)
GetVariable(name) ==
    /\ result' = get_variable([scopes |-> scopes, data |-> data,
                               functions |-> functions], name)
    /\ pc' = Call("get_variable", name, PyNone)
    /\ UNCHANGED <<lexer_text, lexed, tokens, parsed, data, scopes, functions, registry>>
    /\ UNCHANGED <<aliases, categories, other>>

\* context.set_data(dict)
BindData(table) ==
    /\ data' = DataFrame(table)
    /\ result' = EvalOk(PyNone)
    /\ pc' = Call("set_data", "", PyNone)
    /\ UNCHANGED <<lexer_text, lexed, tokens, parsed, scopes, functions, registry>>
    /\ UNCHANGED <<aliases, categories, other>>

\* context.clear()
Clear ==
    /\ scopes' = <<<<>>>>
    /\ data' = PyNone
    /\ functions' = clear_functions(functions)
    /\ result' = EvalOk(PyNone)
    /\ pc' = Call("clear", "", PyNone)
    /\ UNCHANGED <<lexer_text, lexed, tokens, parsed, registry>>
    /\ UNCHANGED <<aliases, categories, other>>

ContextNext ==
    \/ PushScope
    \/ PopScope
    \/ \E name \in ContextNames, value \in ContextValues : SetVariable(name, value)
    \/ \E name \in ContextNames : GetVariable(name)
    \/ \E table \in Tables : BindData(table)
    \/ Clear

SpecContext == ContextSpecInit /\ [][ContextNext]_vars

----------------------------------------------------------------------------
(* The FunctionRegistry on its own, driven through register, unregister,   *)
(* has and get.  pc holds the call just made and result its outcome.       *)

MaxAliases == 2

\* Names in both cases, one of them the name of a built-in function
RegistryNames == {"F", "G", "g", "MA"}

\* The functions handed to register: TDXFunction._validate_definition lets
\* only an upper-case name through
RegistryFunctions ==
    {SimpleTDXFunction(n, "UTILITY", "impl") : n \in {"F", "G"}} \cup {MAFunction}

\* aliases=None, or a list of at most MaxAliases names
AliasLists ==
    UNION {[1..n -> RegistryNames] : n \in 0..MaxAliases}

\* The registry the variables hold
TheRegistry == [functions |-> registry, aliases |-> aliases, categories |-> categories]

RegistrySpecInit ==
    /\ lexer_text = <<>>
    /\ lexed = PyNone
    /\ tokens = <<>>
    /\ parsed = PyNone
    /\ pc = Call("__init__", "", PyNone)
    /\ ContextInit

\* registry.register(function, aliases)
Register(function, alias_list) ==
    LET done(outcome) ==
            /\ registry' = outcome.registry.functions
            /\ aliases' = outcome.registry.aliases
            /\ categories' = outcome.registry.categories
            /\ result' = [ok |-> outcome.ok,
                          error |-> IF outcome.ok THEN "" ELSE outcome.error]
    IN  /\ done(registry_register(TheRegistry, function, alias_list))
        /\ pc' = Call("register", function.name, alias_list)
        /\ UNCHANGED <<lexer_text, lexed, tokens, parsed, data, scopes, functions, other>>

\* registry.unregister(name)
Unregister(name) ==
    LET done(outcome) ==
            /\ registry' = outcome.registry.functions
            /\ aliases' = outcome.registry.aliases
            /\ categories' = outcome.registry.categories
            /\ result' = [ok |-> outcome.ok,
                          error |-> IF outcome.ok THEN "" ELSE outcome.error]
    IN  /\ done(registry_unregister(TheRegistry, name))
        /\ pc' = Call("unregister", name, PyNone)
        /\ UNCHANGED <<lexer_text, lexed, tokens, parsed, data, scopes, functions, other>>

\* registry.has(name)
Has(name) ==
    /\ result' = EvalOk(PyBool(registry_has(TheRegistry, name)))
    /\ pc' = Call("has", name, PyNone)
    /\ UNCHANGED <<lexer_text, lexed, tokens, parsed, data, scopes, functions, registry>>
    /\ UNCHANGED <<aliases, categories, other>>

\* registry.get(name)
Get(name) ==
    LET done(outcome) ==
            result' = IF outcome.ok THEN EvalOk(outcome.value)
                      ELSE EvalRaise(outcome.error, "Function is not defined")
    IN  /\ done(registry_get(TheRegistry, name))
        /\ pc' = Call("get", name, PyNone)
        /\ UNCHANGED <<lexer_text, lexed, tokens, parsed, data, scopes, functions, registry>>
        /\ UNCHANGED <<aliases, categories, other>>

RegistryNext ==
    \/ \E function \in RegistryFunctions, alias_list \in AliasLists :
           Register(function, alias_list)
    \/ \E name \in RegistryNames : Unregister(name)
    \/ \E name \in RegistryNames : Has(name)
    \/ \E name \in RegistryNames : Get(name)

SpecRegistry == RegistrySpecInit /\ [][RegistryNext]_vars

----------------------------------------------------------------------------
(* Two TDXInterpreter instances in one process.  The first one is the      *)
(* interpreter of Spec; other holds the Context of the second one and the  *)
(* outcome of its last call.  Both reach the one registry of the module    *)
(* tdx_interpreter.functions.                                              *)

\* A call of a custom function, an assignment and the names it may bind
InstanceFormulas ==
    {<<IdTok(f), DelimTok("("), IdTok("CLOSE"), DelimTok(","), NumTok(1), DelimTok(")"), EofTok>> :
        f \in {"MA"} \cup CustomNames}
    \cup {<<IdTok("A"), OpTok(":="), NumTok(5), EofTok>>,
          <<IdTok("A"), EofTok>>, <<IdTok("CLOSE"), EofTok>>}

InstanceTables == {Table2, Table1}

\* The Context of the second interpreter
OtherContext == [scopes |-> other.scopes, data |-> other.data, functions |-> other.functions]

\* other.evaluate(formula, context)
OtherEvaluate(formula, context) ==
    LET outcome(bound, run) ==
            other' = [other EXCEPT !.data = bound, !.scopes = run.scopes,
                                   !.result = run.result]
        call(bound) ==
            outcome(bound,
                    interpreter_evaluate(formula, [OtherContext EXCEPT !.data = bound],
                                         registry))
    IN  /\ call(IF context = PyNone THEN other.data ELSE DataFrame(context))
        /\ UNCHANGED <<lexer_text, lexed, tokens, parsed, pc, data, scopes, functions, registry>>
        /\ UNCHANGED <<aliases, categories, result>>

\* other.register_function(name, func): the ValueError of
\* FunctionRegistry.register reaches the caller
OtherRegisterFunction(name, func) ==
    LET done(outcome) ==
            /\ registry' = outcome.registry.functions
            /\ aliases' = outcome.registry.aliases
            /\ categories' = outcome.registry.categories
            /\ other' = [other EXCEPT !.result =
                            IF outcome.ok THEN EvalOk(PyNone)
                            ELSE EvalRaise(outcome.error, "already registered")]
    IN  /\ done(registry_register(TheRegistry,
                                  SimpleTDXFunction(name_upper(name), "UTILITY", func), <<>>))
        /\ UNCHANGED <<lexer_text, lexed, tokens, parsed, pc, data, scopes, functions, result>>

InstancesNext ==
    \/ \E formula \in InstanceFormulas, context \in {PyNone} \cup InstanceTables :
           Evaluate(formula, context)
    \/ Return
    \/ \E table \in InstanceTables : SetData(table)
    \/ \E name \in CustomNames : InterpreterRegisterFunction(name, "interpreter_impl")
    \/ \E formula \in InstanceFormulas, context \in {PyNone} \cup InstanceTables :
           OtherEvaluate(formula, context)
    \/ \E name \in CustomNames : OtherRegisterFunction(name, "other_impl")

SpecInstances == Init /\ [][InstancesNext]_vars

----------------------------------------------------------------------------
(* The parser on its own: parse applied to a token sequence as the lexer   *)
(* produces it (exactly one EOF token, at the end).                        *)

MaxFreeLen == 3

\* Every operator lexeme and operator keyword, as its token
InfixTokens ==
    {OpTok(lex) : lex \in DOMAIN OPERATORS} \cup {KwTok(w) : w \in {"AND", "OR", "NOT"}}

\* One token of every kind the parser tells apart
FreeAlphabet ==
    {NumTok(1), StrTok("s"), IdTok("A"), KwTok("IF"), NewlineTok,
     OpTok("+"), OpTok("-"), OpTok("*"), OpTok("^"), OpTok(":="),
     KwTok("AND"), KwTok("NOT")}
    \cup {DelimTok(ch) : ch \in DOMAIN DELIMITERS}

\* All token sequences of at most MaxFreeLen tokens over FreeAlphabet
FreeInputs ==
    {Append(body, EofTok) :
        body \in UNION {[1..k -> FreeAlphabet] : k \in 0..MaxFreeLen}}

\* a op1 b op2 c, for every pair of operator tokens
ChainInputs ==
    {<<a, op1, NumTok(3), op2, c, EofTok>> :
        a \in {NumTok(10), IdTok("A")}, op1 \in InfixTokens,
        op2 \in InfixTokens, c \in {NumTok(2), IdTok("C")}}

\* E [ 1 ] for a base E that is an identifier, a call, a parenthesized
\* expression or an index access
IndexBases ==
    {<<IdTok("A")>>,
     <<IdTok("MA"), DelimTok("("), IdTok("CLOSE"), DelimTok(","), NumTok(5), DelimTok(")")>>,
     <<DelimTok("("), IdTok("A"), OpTok("+"), IdTok("B"), DelimTok(")")>>,
     <<IdTok("A"), DelimTok("["), NumTok(1), DelimTok("]")>>}

IndexInputs ==
    {base \o <<DelimTok("["), NumTok(n), DelimTok("]"), EofTok>> :
        base \in IndexBases, n \in {1, 2}}

\* The binary operators of the precedence table, as tokens
TableTokens ==
    {OpTok(lex) : lex \in DOMAIN OPERATORS \ {":="}} \cup {KwTok(w) : w \in {"AND", "OR"}}

\* ( a op1 b ) op2 c and a op1 ( b op2 c )
ParenInputs ==
    {<<DelimTok("("), IdTok("A"), op1, NumTok(3), DelimTok(")"), op2, NumTok(2), EofTok>> :
        op1 \in TableTokens, op2 \in TableTokens}
    \cup
    {<<IdTok("A"), op1, DelimTok("("), NumTok(3), op2, NumTok(2), DelimTok(")"), EofTok>> :
        op1 \in TableTokens, op2 \in TableTokens}

\* u a op b for a prefix operator u and a binary operator op
UnaryInputs ==
    {<<u, a, op, b, EofTok>> :
        u \in {OpTok("-"), KwTok("NOT")}, a \in {NumTok(10), IdTok("A")},
        op \in TableTokens, b \in {NumTok(2), IdTok("C")}}

ParserInputs ==
    FreeInputs \cup ChainInputs \cup IndexInputs \cup ParenInputs \cup UnaryInputs

ParserInit ==
    /\ lexer_text = <<>>
    /\ lexed = PyNone
    /\ tokens \in ParserInputs
    /\ parsed = PyNone
    /\ pc = "input"
    /\ ContextInit

\* parser.parse(tokens)
DoParse ==
    /\ pc = "input"
    /\ parsed' = parse(tokens)
    /\ pc' = "parsed"
    /\ UNCHANGED <<lexer_text, lexed, tokens, data, scopes, functions, registry, result>>
    /\ UNCHANGED <<aliases, categories, other>>

ParserNext == DoParse

SpecParser == ParserInit /\ [][ParserNext]_vars

----------------------------------------------------------------------------
(* The lexer on its own: tokenize applied to a text.                       *)

MaxTextLen == 3

\* Characters of every class the rules of tokenize tell apart
TextAlphabet ==
    {"i", "F", "_", "1", ".", " ", "\n", "+", "<", "=", "(", "\"", "#", "{",
     "}", "/", "!", ":"}

\* All texts of at most MaxTextLen characters over TextAlphabet
FreeTexts == UNION {[1..k -> TextAlphabet] : k \in 0..MaxTextLen}

\* Words: keywords in several spellings, and names that are no keyword
WordTexts ==
    {<<"i", "f">>, <<"I", "F">>, <<"I", "f">>,
     <<"a", "n", "d">>, <<"A", "n", "d">>, <<"A", "N", "D">>,
     <<"o", "r">>, <<"O", "R">>,
     <<"n", "o", "t">>, <<"N", "O", "T">>, <<"N", "o", "t">>,
     <<"t", "h", "e", "n">>, <<"T", "H", "E", "N">>,
     <<"e", "l", "s", "e">>, <<"E", "L", "S", "E">>,
     <<"c", "l", "o", "s", "e">>, <<"C", "L", "O", "S", "E">>,
     <<"i", "f", "f">>, <<"A", "N", "D", "1">>, <<"_", "o", "r">>,
     <<"n", "o", "t", "e">>, <<"m", "a", "5">>, <<"X", "_", "1">>}

\* Longer texts: numbers, strings with escapes, comments, several lines
PhraseTexts ==
    {<<"1", "2", ".", "5", "0">>, <<"1", ".", ".", "5">>, <<"7", ".", "x">>,
     <<"\"", "a", "\\", "\"", "b", "\"">>, <<"\"", "a", "\\", "\n", "\"">>,
     <<"\"", "\\", "\\", "\"">>, <<"\"", "a", "\n", "b", "\"">>,
     <<"\"", "a", "\n", "b", "\"", " ", "x">>,
     <<"{", "a", "\n", "b", "}", "x">>, <<"/", "/", "a", "\n", "x", " ", "$">>,
     <<"#", "a", "}", "\n", "\n", " ", "y">>, <<"a", ":", "=", "1", ";", "\n", "b">>,
     <<"a", " ", "<", ">", " ", "b", "\t", "@">>, <<"x", ">", "=", "2", "\r", "\n">>,
     <<"m", "a", "(", "c", ",", "5", ")", "[", "1", "]">>}

LexerInputs == FreeTexts \cup WordTexts \cup PhraseTexts

LexerInit ==
    /\ lexer_text \in LexerInputs
    /\ lexed = PyNone
    /\ tokens = <<>>
    /\ parsed = PyNone
    /\ pc = "text"
    /\ ContextInit

\* lexer.tokenize(text)
DoTokenize ==
    /\ pc = "text"
    /\ lexed' = tokenize(lexer_text)
    /\ pc' = "lexed"
    /\ UNCHANGED <<lexer_text, tokens, parsed, data, scopes, functions, registry, result>>
    /\ UNCHANGED <<aliases, categories, other>>

\* interpreter.validate(text)
Validate ==
    /\ pc = "text"
    /\ result' = PyBool(interpreter_validate(lexer_text))
    /\ pc' = "validated"
    /\ UNCHANGED <<lexer_text, lexed, tokens, parsed, data, scopes, functions, registry>>
    /\ UNCHANGED <<aliases, categories, other>>

LexerNext == DoTokenize \/ Validate

SpecLexer == LexerInit /\ [][LexerNext]_vars

----------------------------------------------------------------------------
(* Claims about the parser                                                 *)

\* The spec's precedence table, levels 1-6: the left-associative operators
TableLevel(type) ==
    CASE type = "OR" -> 1
      [] type = "AND" -> 2
      [] type \in {"EQUAL", "NOT_EQUAL"} -> 3
      [] type \in {"GREATER", "LESS", "GREATER_EQUAL", "LESS_EQUAL"} -> 4
      [] type \in {"PLUS", "MINUS"} -> 5
      [] type \in {"MULTIPLY", "DIVIDE", "MODULO"} -> 6
      [] OTHER -> 0

IsOperandToken(tok) == tok.type \in {"NUMBER", "IDENTIFIER"}

OperandNode(tok) ==
    IF tok.type = "NUMBER" THEN NumberLiteral(tok.value) ELSE Identifier(tok.value)

\* tokens is `a op1 b op2 c` with op1, op2 two operators of one level in 1..6
IsSameLevelChain(toks) ==
    /\ Len(toks) = 6
    /\ IsOperandToken(toks[1]) /\ IsOperandToken(toks[3]) /\ IsOperandToken(toks[5])
    /\ TableLevel(toks[2].type) >= 1
    /\ TableLevel(toks[2].type) = TableLevel(toks[4].type)
    /\ toks[6].type = "EOF"

\* C1: binary operators of levels 1-6 are left-associative: `a op1 b op2 c`
\* with op1, op2 of the same level parses to
\* BinaryOperation(BinaryOperation(a, op1, b), op2, c).
C1_LeftAssociative ==
    (pc = "parsed" /\ IsSameLevelChain(tokens)) =>
        /\ parsed.ok
        /\ parsed.node =
             Program(<<BinaryOperation(
                          BinaryOperation(OperandNode(tokens[1]), tokens[2].value,
                                          OperandNode(tokens[3])),
                          tokens[4].value, OperandNode(tokens[5]))>>)

\* The operators of all the BinaryOperation nodes of a tree
RECURSIVE BinaryOperators(_)
BinaryOperators(node) ==
    CASE node.kind = "BinaryOperation" ->
            {node.operator} \cup BinaryOperators(node.left) \cup BinaryOperators(node.right)
      [] node.kind = "UnaryOperation" -> BinaryOperators(node.operand)
      [] node.kind = "FunctionCall" ->
            UNION {BinaryOperators(node.arguments[i]) : i \in DOMAIN node.arguments}
      [] node.kind = "Assignment" -> BinaryOperators(node.value)
      [] node.kind = "ConditionalExpression" ->
            BinaryOperators(node.condition) \cup BinaryOperators(node.true_value)
                \cup BinaryOperators(node.false_value)
      [] node.kind = "ArrayAccess" ->
            BinaryOperators(node.array) \cup BinaryOperators(node.index)
      [] node.kind = "Program" ->
            UNION {BinaryOperators(node.body[i]) : i \in DOMAIN node.body}
      [] OTHER -> {}

\* The operators a BinaryOperation node may carry
BinaryOperatorLexemes ==
    {PyStr(lex) : lex \in {"+", "-", "*", "/", "%", "^", "=", "<>", "!=", ">", "<",
                           ">=", "<=", "AND", "OR"}}

\* C5: `:=` is handled only at statement level: whenever parse succeeds, the
\* operator of every BinaryOperation node of the result is one of
\* + - * / % ^ = <> != > < >= <= AND OR.
C5_InfixOperatorsOnly ==
    (pc = "parsed" /\ parsed.ok) => BinaryOperators(parsed.node) \subseteq BinaryOperatorLexemes

----------------------------------------------------------------------------
(* Claims about evaluation.  They are stated at the state in which         *)
(* evaluate has returned (pc = "returned"): tokens is the formula, result  *)
(* its outcome, and data, scopes, functions, registry are the context it   *)
(* ran in (none of the formulas below assigns a variable).                 *)

CurrentContext == [scopes |-> scopes, data |-> data, functions |-> functions]

\* tokens is `x op y` for two operands (a number or an identifier each)
IsBinaryFormula(toks) ==
    /\ Len(toks) = 4
    /\ IsOperandToken(toks[1]) /\ IsOperandToken(toks[3])
    /\ toks[2].type \in DOMAIN PRECEDENCE_MAP \ {"ASSIGN", "NOT"}
    /\ toks[4].type = "EOF"

\* The value of an operand of the formula in the context
OperandValue(tok) == visit(OperandNode(tok), CurrentContext, registry)

\* One element of S op k
ElementOp(op, a, b) ==
    IF op \in ArithmeticOperators THEN float_arith(op, a, b)
    ELSE PyBool(float_compare(op, a, b))

\* tokens is `x op y`, op arithmetic or a comparison, exactly one of x, y a
\* series and the other a number
IsScalarSeriesFormula ==
    /\ pc = "returned"
    /\ IsBinaryFormula(tokens)
    /\ tokens[2].value.str \in ArithmeticOperators \cup ComparisonOperators
    /\ OperandValue(tokens[1]).ok /\ OperandValue(tokens[3]).ok
    /\ \/ IsSeries(OperandValue(tokens[1]).value) /\ IsNumber(OperandValue(tokens[3]).value)
       \/ IsNumber(OperandValue(tokens[1]).value) /\ IsSeries(OperandValue(tokens[3]).value)

\* S op k or k op S applied to every row of S
Broadcast(op, left, right) ==
    IF IsSeries(left)
    THEN [i \in DOMAIN left.series |-> ElementOp(op, left.series[i], right)]
    ELSE [i \in DOMAIN right.series |-> ElementOp(op, left, right.series[i])]

\* C2: a binary arithmetic or comparison operator on a series S of length L
\* and a scalar k, in either order, yields the series of length L whose
\* every row i is S[i] op k.
C2_Broadcasting ==
    IsScalarSeriesFormula =>
        result = EvalOk(Series(Broadcast(tokens[2].value.str,
                                         OperandValue(tokens[1]).value,
                                         OperandValue(tokens[3]).value)))

\* tokens is the single identifier N
IsLookupFormula(toks) ==
    Len(toks) = 2 /\ toks[1].type = "IDENTIFIER" /\ toks[2].type = "EOF"

\* C3: an identifier N that a scope defines resolves to the value of the
\* innermost such scope, whether or not the bound table has a column N.
C3_ScopeBeforeColumn ==
    (/\ pc = "returned"
     /\ IsLookupFormula(tokens)
     /\ scope_lookup(scopes, tokens[1].value.str, Len(scopes)).ok) =>
        result = scope_lookup(scopes, tokens[1].value.str, Len(scopes))

\* The formula is one call NAME(args...) whose arguments evaluate
IsCallFormula ==
    /\ pc = "returned"
    /\ parsed # PyNone
    /\ parsed.ok
    /\ Len(parsed.node.body) = 1
    /\ parsed.node.body[1].kind = "FunctionCall"
    /\ visit_arguments(parsed.node.body[1].arguments, 1, CurrentContext, registry).ok

CallName == parsed.node.body[1].name.str

CallArguments ==
    visit_arguments(parsed.node.body[1].arguments, 1, CurrentContext, registry).value

TypedErrors == {"TDXNameError", "TDXArgumentError", "TDXTypeError", "TDXValueError"}

\* C4: when registry.call raises a NameError, ArgumentError, TypeError or
\* ValueError of the TDX hierarchy during a call, evaluate fails with an
\* error of exactly that class.
C4_TypedErrorsPropagate ==
    (/\ IsCallFormula
     /\ ~registry_call(registry, CallName, CallArguments).ok
     /\ registry_call(registry, CallName, CallArguments).error \in TypedErrors) =>
        /\ ~result.ok
        /\ result.error = registry_call(registry, CallName, CallArguments).error

\* str.upper() on the column names of the tables
Upper(name) == IF name = "volume" THEN "VOLUME" ELSE name

\* The columns of the bound table whose name matches N case-insensitively
MatchingColumns(name) ==
    IF data = PyNone THEN {}
    ELSE {c \in DOMAIN data.frame : Upper(c) = Upper(name)}

\* C6: with a table bound, an identifier that names one of its columns
\* (matched case-insensitively) and that no scope defines resolves to that
\* column as a series.
C6_ColumnsResolvable ==
    (/\ pc = "returned"
     /\ IsLookupFormula(tokens)
     /\ MatchingColumns(tokens[1].value.str) # {}
     /\ ~scope_lookup(scopes, tokens[1].value.str, Len(scopes)).ok) =>
        \E c \in MatchingColumns(tokens[1].value.str) :
            result = EvalOk(Series(data.frame[c]))

\* C7: after TDXContext.register_function(NAME, impl), a call NAME(args...)
\* evaluated with that context invokes impl with the evaluated arguments.
C7_ContextRegistrationUsed ==
    (/\ IsCallFormula
     /\ CallName \in DOMAIN functions
     /\ functions[CallName] = "context_impl") =>
        result = EvalOk([called |-> "context_impl", with |-> CallArguments])

\* tokens is `a / b` or `a % b` with both operands defined and the divisor a
\* zero or a series with a zero row
IsZeroDivisionFormula ==
    /\ pc = "returned"
    /\ IsBinaryFormula(tokens)
    /\ tokens[2].value.str \in {"/", "%"}
    /\ OperandValue(tokens[1]).ok /\ OperandValue(tokens[3]).ok
    /\ \/ /\ IsNumber(OperandValue(tokens[3]).value)
          /\ IsZero(OperandValue(tokens[3]).value)
       \/ /\ IsSeries(OperandValue(tokens[3]).value)
          /\ \E i \in DOMAIN OperandValue(tokens[3]).value.series :
                IsZero(OperandValue(tokens[3]).value.series[i])

\* Row i of a result is the not-a-number marker
IsNaNAt(value, i) ==
    IF IsSeries(value) THEN i \in DOMAIN value.series /\ IsNaN(value.series[i])
    ELSE IF IsNpFloat(value) THEN IsNaN(value.np)
    ELSE IsNumber(value) /\ IsNaN(value)

\* The rows at which the divisor is zero: all rows of the dividend for a
\* scalar zero, the zero rows of a series divisor
ZeroDivisorRows(dividend, divisor) ==
    IF IsSeries(divisor)
    THEN {i \in DOMAIN divisor.series : IsZero(divisor.series[i])}
    ELSE IF IsSeries(dividend) THEN DOMAIN dividend.series
    ELSE {1}

\* C8: `a / b` and `a % b` never raise because of a zero divisor: the result
\* is a value, and it is not-a-number at every position where b is zero.
C8_DivisionByZeroIsNaN ==
    IsZeroDivisionFormula =>
        /\ result.ok
        /\ \A i \in ZeroDivisorRows(OperandValue(tokens[1]).value,
                                    OperandValue(tokens[3]).value) :
              IsNaNAt(result.value, i)

\* tokens is `X[n]` or `X[-n]` with X a series; IndexOf is the integer index
IsIndexFormula ==
    /\ pc = "returned"
    /\ Len(tokens) \in {5, 6}
    /\ tokens[1].type = "IDENTIFIER"
    /\ tokens[2].type = "LEFT_BRACKET"
    /\ tokens[Len(tokens) - 1].type = "RIGHT_BRACKET"
    /\ tokens[Len(tokens) - 2].type = "NUMBER"
    /\ (Len(tokens) = 6 => tokens[3].type = "MINUS")
    /\ OperandValue(tokens[1]).ok
    /\ IsSeries(OperandValue(tokens[1]).value)

IndexOf(toks) == IF Len(toks) = 6 THEN -toks[4].value.num ELSE toks[3].value.num

\* X shifted by n rows: row i holds X[i - n], or the missing-value marker
Shift(rows, n) ==
    [i \in DOMAIN rows |-> IF i - n \in DOMAIN rows THEN rows[i - n] ELSE NaN]

\* C9: for a series X of length L and an integer n, `X[n]` is the series of
\* length L whose row i holds X[i - n] when that row exists and the
\* missing-value marker otherwise; an out-of-range n does not raise.
C9_IndexIsShift ==
    IsIndexFormula =>
        result = EvalOk(Series(Shift(OperandValue(tokens[1]).value.series,
                                     IndexOf(tokens))))

\* tokens is `x op y` with x and y two series of different lengths
IsMismatchFormula ==
    /\ pc = "returned"
    /\ IsBinaryFormula(tokens)
    /\ OperandValue(tokens[1]).ok /\ OperandValue(tokens[3]).ok
    /\ IsSeries(OperandValue(tokens[1]).value)
    /\ IsSeries(OperandValue(tokens[3]).value)
    /\ Len(OperandValue(tokens[1]).value.series)
         # Len(OperandValue(tokens[3]).value.series)

\* C10: a binary operator on two series of different lengths raises a
\* runtime error and returns no series.
C10_LengthMismatchRaises ==
    IsMismatchFormula => (~result.ok /\ result.error = "TDXRuntimeError")

----------------------------------------------------------------------------
(* More claims about the parser                                            *)

\* The tokens before a final `[ n ]`, closed by an EOF token
IndexBase(toks) == Append(SubSeq(toks, 1, Len(toks) - 4), EofTok)

\* tokens is `E [ n ]`, where E on its own parses to one expression that is
\* an identifier, a call, an index access or a parenthesized expression
IsIndexedExpression(toks) ==
    /\ Len(toks) >= 5
    /\ toks[Len(toks) - 3].type = "LEFT_BRACKET"
    /\ toks[Len(toks) - 2].type = "NUMBER"
    /\ toks[Len(toks) - 1].type = "RIGHT_BRACKET"
    /\ toks[Len(toks)].type = "EOF"
    /\ parse(IndexBase(toks)).ok
    /\ Len(parse(IndexBase(toks)).node.body) = 1
    /\ \/ parse(IndexBase(toks)).node.body[1].kind
              \in {"Identifier", "FunctionCall", "ArrayAccess"}
       \/ toks[1].type = "LEFT_PAREN" /\ toks[Len(toks) - 4].type = "RIGHT_PAREN"

\* C11: `E [ I ]` is accepted with any expression E as its base (an
\* identifier, a call, a parenthesized expression, another index access):
\* parse succeeds and yields the single node ArrayAccess(tree of E, tree of I).
C11_IndexOnAnyBase ==
    (pc = "parsed" /\ IsIndexedExpression(tokens)) =>
        /\ parsed.ok
        /\ parsed.node =
             Program(<<ArrayAccess(parse(IndexBase(tokens)).node.body[1],
                                   NumberLiteral(tokens[Len(tokens) - 2].value))>>)

IsTerminatorToken(tok) == tok.type \in {"SEMICOLON", "NEWLINE"}

\* tokens is a program of one-token statements (a number or an identifier
\* each): consecutive statements are separated by at least one terminator,
\* and terminators may lead and trail
IsTerminatedProgram(toks) ==
    /\ Len(toks) >= 1
    /\ toks[Len(toks)].type = "EOF"
    /\ \A i \in 1..(Len(toks) - 1) : IsOperandToken(toks[i]) \/ IsTerminatorToken(toks[i])
    /\ \A i \in 1..(Len(toks) - 2) : ~(IsOperandToken(toks[i]) /\ IsOperandToken(toks[i + 1]))

\* The statements of such a program, in source order
StatementsOf(toks) ==
    LET operands == SelectSeq(toks, IsOperandToken)
    IN  [i \in DOMAIN operands |-> OperandNode(operands[i])]

\* C12: statement terminators (`;`, NEWLINE) are optional and skippable, in
\* any number and order, leading and trailing included: parse returns the
\* Program of exactly the statements, in source order, and raises nothing.
C12_TerminatorsSkippable ==
    (pc = "parsed" /\ IsTerminatedProgram(tokens)) =>
        (parsed.ok /\ parsed.node = Program(StatementsOf(tokens)))

----------------------------------------------------------------------------
(* Claims about precedence and associativity                               *)

\* The levels of the binary operators in the spec's precedence table
BinaryLevel(type) == IF type = "POWER" THEN 8 ELSE TableLevel(type)

LeftNested(a, op1, b, op2, c) ==
    BinaryOperation(BinaryOperation(OperandNode(a), op1.value, OperandNode(b)),
                    op2.value, OperandNode(c))

RightNested(a, op1, b, op2, c) ==
    BinaryOperation(OperandNode(a), op1.value,
                    BinaryOperation(OperandNode(b), op2.value, OperandNode(c)))

\* tokens is `a op1 b op2 c` with op1, op2 binary operators of two levels
IsMixedLevelChain(toks) ==
    /\ Len(toks) = 6
    /\ IsOperandToken(toks[1]) /\ IsOperandToken(toks[3]) /\ IsOperandToken(toks[5])
    /\ BinaryLevel(toks[2].type) >= 1 /\ BinaryLevel(toks[4].type) >= 1
    /\ BinaryLevel(toks[2].type) # BinaryLevel(toks[4].type)
    /\ toks[6].type = "EOF"

\* tokens is `( a op1 b ) op2 c` with op1, op2 binary operators
IsLeftParenChain(toks) ==
    /\ Len(toks) = 8
    /\ toks[1].type = "LEFT_PAREN" /\ toks[5].type = "RIGHT_PAREN"
    /\ IsOperandToken(toks[2]) /\ IsOperandToken(toks[4]) /\ IsOperandToken(toks[7])
    /\ BinaryLevel(toks[3].type) >= 1 /\ BinaryLevel(toks[6].type) >= 1
    /\ toks[8].type = "EOF"

\* tokens is `a op1 ( b op2 c )` with op1, op2 binary operators
IsRightParenChain(toks) ==
    /\ Len(toks) = 8
    /\ toks[3].type = "LEFT_PAREN" /\ toks[7].type = "RIGHT_PAREN"
    /\ IsOperandToken(toks[1]) /\ IsOperandToken(toks[4]) /\ IsOperandToken(toks[6])
    /\ BinaryLevel(toks[2].type) >= 1 /\ BinaryLevel(toks[5].type) >= 1
    /\ toks[8].type = "EOF"

\* C14: for binary operators lo and hi with hi at a strictly higher level,
\* `a lo b hi c` parses as BinaryOperation(a, lo, BinaryOperation(b, hi, c))
\* and `a hi b lo c` as BinaryOperation(BinaryOperation(a, hi, b), lo, c); a
\* parenthesized sub-expression is a single operand whatever the operators.
C14_PrecedenceBetweenLevels ==
    pc = "parsed" =>
        /\ IsMixedLevelChain(tokens) =>
              /\ parsed.ok
              /\ parsed.node =
                   Program(<<IF BinaryLevel(tokens[2].type) < BinaryLevel(tokens[4].type)
                             THEN RightNested(tokens[1], tokens[2], tokens[3],
                                              tokens[4], tokens[5])
                             ELSE LeftNested(tokens[1], tokens[2], tokens[3],
                                             tokens[4], tokens[5])>>)
        /\ IsLeftParenChain(tokens) =>
              /\ parsed.ok
              /\ parsed.node = Program(<<LeftNested(tokens[2], tokens[3], tokens[4],
                                                    tokens[6], tokens[7])>>)
        /\ IsRightParenChain(tokens) =>
              /\ parsed.ok
              /\ parsed.node = Program(<<RightNested(tokens[1], tokens[2], tokens[4],
                                                     tokens[5], tokens[6])>>)

\* C14 witness: `a hi b lo c` has been parsed into (a hi b) lo c
C14_Witness ==
    /\ pc = "parsed"
    /\ IsMixedLevelChain(tokens)
    /\ BinaryLevel(tokens[2].type) > BinaryLevel(tokens[4].type)
    /\ parsed.ok
    /\ parsed.node.body[1].left.kind = "BinaryOperation"

\* tokens is `a ^ b ^ c`
IsPowerChain(toks) ==
    /\ Len(toks) = 6
    /\ IsOperandToken(toks[1]) /\ IsOperandToken(toks[3]) /\ IsOperandToken(toks[5])
    /\ toks[2].type = "POWER" /\ toks[4].type = "POWER"
    /\ toks[6].type = "EOF"

\* C15: the power operator is right-associative: `a ^ b ^ c` parses to
\* BinaryOperation(a, '^', BinaryOperation(b, '^', c)).
C15_PowerRightAssociative ==
    (pc = "parsed" /\ IsPowerChain(tokens)) =>
        /\ parsed.ok
        /\ parsed.node =
             Program(<<BinaryOperation(OperandNode(tokens[1]), PyStr("^"),
                          BinaryOperation(OperandNode(tokens[3]), PyStr("^"),
                                          OperandNode(tokens[5])))>>)

\* C15 witness: `a ^ b ^ c` has been parsed and the right operand of the
\* outer node is itself a power
C15_Witness ==
    /\ pc = "parsed"
    /\ IsPowerChain(tokens)
    /\ parsed.ok
    /\ parsed.node.body[1].operator = PyStr("^")
    /\ parsed.node.body[1].right.kind = "BinaryOperation"

\* tokens is `u a op b` with u a prefix operator and op a binary operator
IsUnaryThenBinary(toks) ==
    /\ Len(toks) = 5
    /\ toks[1].type \in {"MINUS", "NOT"}
    /\ IsOperandToken(toks[2]) /\ IsOperandToken(toks[4])
    /\ BinaryLevel(toks[3].type) >= 1
    /\ toks[5].type = "EOF"

\* C16: prefix - and NOT bind tighter than every binary operator of levels
\* 1-6 but looser than ^: `u a op b` parses as
\* BinaryOperation(UnaryOperation(u, a), op, b) for op of levels 1-6, while
\* `u a ^ b` parses as UnaryOperation(u, BinaryOperation(a, '^', b)).
C16_UnaryBetweenFactorAndPower ==
    (pc = "parsed" /\ IsUnaryThenBinary(tokens)) =>
        /\ parsed.ok
        /\ parsed.node =
             Program(<<IF tokens[3].type = "POWER"
                       THEN UnaryOperation(tokens[1].value,
                                BinaryOperation(OperandNode(tokens[2]), tokens[3].value,
                                                OperandNode(tokens[4])))
                       ELSE BinaryOperation(
                                UnaryOperation(tokens[1].value, OperandNode(tokens[2])),
                                tokens[3].value, OperandNode(tokens[4]))>>)

\* C16 witness: `u a ^ b` has been parsed into a unary node over a power
C16_Witness ==
    /\ pc = "parsed"
    /\ IsUnaryThenBinary(tokens)
    /\ tokens[3].type = "POWER"
    /\ parsed.ok
    /\ parsed.node.body[1].kind = "UnaryOperation"
    /\ parsed.node.body[1].operand.kind = "BinaryOperation"

----------------------------------------------------------------------------
(* Claims about programs of several statements.  A step of evaluate is a   *)
(* step from pc = "idle" to pc = "returned": tokens' is the formula,        *)
(* parsed' its tree, result' the outcome, and scopes, data' and functions  *)
(* make the Context the statements ran in.                                 *)

IsEvaluateStep == pc = "idle" /\ pc' = "returned"

\* The scope stack with name bound to value in the innermost scope
Bound(stack, name, value) ==
    [stack EXCEPT ![Len(stack)] = (name :> value) @@ @]

\* The expression a statement evaluates
StatementExpr(statement) ==
    IF statement.kind = "Assignment" THEN statement.value ELSE statement

\* The outcome of a statement evaluated with the scope stack scps and the
\* table d
StatementIn(statement, scps, d) ==
    visit(StatementExpr(statement),
          [scopes |-> scps, data |-> d, functions |-> functions], registry)

\* The scope stack statement k runs in when statements 1..k-1 ran before it,
\* in source order, starting from scps
RECURSIVE ScopesBefore(_, _, _, _)
ScopesBefore(body, k, scps, d) ==
    IF k = 1 THEN scps
    ELSE IF body[k - 1].kind = "Assignment"
    THEN Bound(ScopesBefore(body, k - 1, scps, d), body[k - 1].name.str,
               StatementIn(body[k - 1], ScopesBefore(body, k - 1, scps, d), d).value)
    ELSE ScopesBefore(body, k - 1, scps, d)

\* The outcome of statement k in source order
ValueOf(body, k, scps, d) ==
    StatementIn(body[k], ScopesBefore(body, k, scps, d), d)

\* C18: evaluate returns the value of the last statement of the program,
\* having evaluated all statements strictly in source order; for a program
\* with zero statements it returns None without raising.
C18_LastStatementValue ==
    [][(IsEvaluateStep /\ parsed'.ok) =>
          /\ parsed'.node.body = <<>> => result' = EvalOk(PyNone)
          /\ ( /\ parsed'.node.body # <<>>
               /\ \A k \in DOMAIN parsed'.node.body :
                      ValueOf(parsed'.node.body, k, scopes, data').ok ) =>
                /\ result' = ValueOf(parsed'.node.body, Len(parsed'.node.body),
                                     scopes, data')
                /\ scopes' = ScopesBefore(parsed'.node.body,
                                          Len(parsed'.node.body) + 1, scopes, data')]_vars

\* C18 witness: `A := 5; A + 1` has returned 6, the value of its last
\* statement
C18_Witness ==
    /\ pc = "returned"
    /\ parsed.ok
    /\ Len(parsed.node.body) = 2
    /\ parsed.node.body[1] = Assignment(PyStr("A"), NumberLiteral(PyNum(5)))
    /\ result = EvalOk(PyNum(6))

\* name is a column of the bound table d
IsColumn(name, d) == d # PyNone /\ name \in DOMAIN d.frame

\* Every statement of the program evaluates without raising
AllSucceed(body, scps, d) ==
    \A k \in DOMAIN body : ValueOf(body, k, scps, d).ok

\* The names statements 1..m assign
AssignedNames(body, m) ==
    {body[k].name.str : k \in {j \in 1..m : body[j].kind = "Assignment"}}

\* The last of statements 1..m that assigns name
LastAssignment(body, m, name) ==
    CHOOSE k \in 1..m :
        /\ body[k].kind = "Assignment" /\ body[k].name.str = name
        /\ \A j \in (k + 1)..m :
              ~(body[j].kind = "Assignment" /\ body[j].name.str = name)

\* C19: for an identifier N that is not a column of the bound table, after
\* `N := e` is evaluated every later statement of the program and every
\* later lookup of N in the same Context, also from a later evaluate call,
\* sees the value of e until N is assigned again.
C19_AssignmentVisible ==
    [][/\ (IsEvaluateStep /\ parsed'.ok
           /\ AllSucceed(parsed'.node.body, scopes, data')) =>
             \* the statements after an assignment saw it: the last one ran
             \* in the scopes the earlier ones left
             /\ parsed'.node.body # <<>> =>
                   result' = ValueOf(parsed'.node.body, Len(parsed'.node.body),
                                     scopes, data')
             \* a lookup after the program sees the last value assigned
             /\ \A name \in AssignedNames(parsed'.node.body, Len(parsed'.node.body)) :
                   ~IsColumn(name, data') =>
                     get_variable([scopes |-> scopes', data |-> data',
                                   functions |-> functions'], name)
                       = EvalOk(ValueOf(parsed'.node.body,
                                        LastAssignment(parsed'.node.body,
                                            Len(parsed'.node.body), name),
                                        scopes, data').value)
             \* a name the program does not assign keeps its value
             /\ \A name \in DOMAIN scopes[Len(scopes)]
                         \ AssignedNames(parsed'.node.body, Len(parsed'.node.body)) :
                   /\ name \in DOMAIN scopes'[Len(scopes')]
                   /\ scopes'[Len(scopes')][name] = scopes[Len(scopes)][name]
       \* a later evaluate call that looks N up sees the value
       /\ \A name \in DOMAIN scopes[Len(scopes)] :
             ( /\ IsEvaluateStep /\ parsed'.ok
               /\ parsed'.node.body = <<Identifier(PyStr(name))>>
               /\ ~IsColumn(name, data') ) =>
                 result' = EvalOk(scopes[Len(scopes)][name])
       \* nothing but evaluate changes the variables
       /\ ~IsEvaluateStep => scopes' = scopes]_vars

\* C19 witness: a later evaluate call has looked up A, assigned by an
\* earlier call, and returned its value
C19_Witness ==
    /\ pc = "returned"
    /\ parsed.ok
    /\ parsed.node.body = <<Identifier(PyStr("A"))>>
    /\ "A" \in DOMAIN scopes[Len(scopes)]
    /\ ~IsColumn("A", data)
    /\ result = EvalOk(scopes[Len(scopes)]["A"])

\* The first statement that raises
FirstFailing(body, scps, d) ==
    CHOOSE k \in DOMAIN body :
        /\ ~ValueOf(body, k, scps, d).ok
        /\ \A j \in 1..(k - 1) : ValueOf(body, j, scps, d).ok

\* C20: evaluation is not transactional: if statement k raises, evaluate
\* raises, the variables assigned by statements 1..k-1 keep the values those
\* statements gave them, the statements after k are not evaluated and every
\* other variable is unchanged.
C20_NoRollback ==
    [][(IsEvaluateStep /\ parsed'.ok
        /\ ~AllSucceed(parsed'.node.body, scopes, data')) =>
          /\ ~result'.ok
          /\ scopes' = ScopesBefore(parsed'.node.body,
                                    FirstFailing(parsed'.node.body, scopes, data'),
                                    scopes, data')]_vars

\* C20 witness: `A := 1; 1 / 0; A := 2` has raised and A is 1
C20_Witness ==
    /\ pc = "returned"
    /\ parsed.ok
    /\ Len(parsed.node.body) = 3
    /\ parsed.node.body[1] = Assignment(PyStr("A"), NumberLiteral(PyNum(1)))
    /\ parsed.node.body[3] = Assignment(PyStr("A"), NumberLiteral(PyNum(2)))
    /\ ~result.ok
    /\ scopes[Len(scopes)]["A"] = PyNum(1)

\* A scalar is truthy iff it is nonzero, a series iff every element is
NonZero(e) == IF IsBool(e) THEN e.bool ELSE ~(e.num = 0 /\ e.den # 0)

IsTruthy(v) ==
    IF IsSeries(v) THEN \A i \in DOMAIN v.series : NonZero(v.series[i])
    ELSE IF IsNpFloat(v) THEN NonZero(v.np)
    ELSE NonZero(v)

\* An expression of the program evaluated in the Context evaluate ran in
ExprIn(node, scps, d) ==
    visit(node, [scopes |-> scps, data |-> d, functions |-> functions], registry)

\* The branch `IF(c, t, e)` selects for the value of c
SelectedBranch(node, condition) ==
    IF IsTruthy(condition) THEN node.true_value ELSE node.false_value

\* C21: evaluating `IF(c, t, e)` evaluates c and then exactly one of t and
\* e: t iff c is truthy, e otherwise; the unselected branch is never
\* evaluated, so an error it would raise never surfaces.
C21_ConditionalShortCircuit ==
    [][\A node \in {parsed'} :
          ( /\ IsEvaluateStep /\ node.ok
            /\ Len(node.node.body) = 1
            /\ node.node.body[1].kind = "ConditionalExpression"
            /\ ExprIn(node.node.body[1].condition, scopes, data').ok ) =>
              /\ result'.ok =
                   ExprIn(SelectedBranch(node.node.body[1],
                              ExprIn(node.node.body[1].condition, scopes, data').value),
                          scopes, data').ok
              /\ result'.ok =>
                   result' =
                     ExprIn(SelectedBranch(node.node.body[1],
                                ExprIn(node.node.body[1].condition, scopes, data').value),
                            scopes, data')]_vars

\* C21 witness: `IF(c, t, e)` with a false c and a t that raises has
\* returned the value of e
C21_Witness ==
    /\ pc = "returned"
    /\ parsed.ok
    /\ Len(parsed.node.body) = 1
    /\ parsed.node.body[1].kind = "ConditionalExpression"
    /\ parsed.node.body[1].true_value.kind = "FunctionCall"
    /\ parsed.node.body[1].true_value.name = PyStr("ERROR_CALL")
    /\ result = EvalOk(PyNum(42))

----------------------------------------------------------------------------
(* Claims about the termination of the parser                              *)

\* C25: for every token sequence ending in EOF, parse ends with a Program
\* or a syntax error of its own after a number of steps bounded by the
\* token count: every entry into the prefix parser consumes a new token, so
\* on no input does the parser recurse without advancing the cursor (which
\* Python ends with a RecursionError).
C25_ParserAdvances ==
    pc = "parsed" => (parsed.ok \/ parsed.cause # "RecursionError")

----------------------------------------------------------------------------
(* Claims about a failed evaluate                                          *)

\* C27: if evaluate(formula, context=table) raises a syntax error while
\* tokenizing or parsing the formula, the bound data table and all scope
\* variables are the same after the call as before it.
C27_FailedEvaluateKeepsData ==
    [][(IsEvaluateStep /\ ~parsed'.ok) =>
          (data' = data /\ scopes' = scopes)]_vars

----------------------------------------------------------------------------
(* Claims about the lexer                                                  *)

\* The text is one identifier-shaped lexeme: a letter or underscore followed
\* by letters, digits and underscores
IsIdentifierShaped(chars) ==
    /\ chars # <<>>
    /\ chars[1] \in IdentifierStartChars
    /\ \A i \in DOMAIN chars : chars[i] \in IdentifierChars

\* The upper-cased text of a lexeme
UpperText(chars) == join([i \in DOMAIN chars |-> char_upper(chars[i])])

\* The keywords the specification reserves
ReservedWords == {"IF", "AND", "OR", "NOT"}

\* C13: an identifier-shaped lexeme is emitted with a keyword token kind
\* exactly when its upper-cased text is one of IF, AND, OR, NOT; every other
\* identifier-shaped lexeme is emitted as an IDENTIFIER token whose value is
\* the upper-cased text.
C13_KeywordsAreIfAndOrNot ==
    (pc = "lexed" /\ IsIdentifierShaped(lexer_text)) =>
        /\ lexed.ok
        /\ Len(lexed.tokens) = 2
        /\ lexed.tokens[1].value = PyStr(UpperText(lexer_text))
        /\ lexed.tokens[1].type =
             IF UpperText(lexer_text) \in ReservedWords
             THEN UpperText(lexer_text)
             ELSE "IDENTIFIER"

\* Where the rule that matches at a position ends (whitespace, comment,
\* newline, number, string, operator, delimiter, identifier, in this order),
\* or the position itself when no rule matches there
RuleEnd(chars, position) ==
    IF whitespace_match(chars, position).matched THEN whitespace_match(chars, position).end
    ELSE IF comment_match(chars, position).matched THEN comment_match(chars, position).end
    ELSE IF current_char(chars, position) = "\n" THEN position + 1
    ELSE IF number_match(chars, position).matched THEN number_match(chars, position).end
    ELSE IF string_match(chars, position).matched THEN string_match(chars, position).end
    ELSE IF operator_at(chars, position) # ""
    THEN position + operator_len(operator_at(chars, position))
    ELSE IF current_char(chars, position) \in DOMAIN DELIMITERS THEN position + 1
    ELSE IF identifier_match(chars, position).matched
    THEN identifier_match(chars, position).end
    ELSE position

\* The first scan position at which no rule matches, Len(chars) when the
\* scan reaches the end of the text
RECURSIVE FirstUnmatched(_, _)
FirstUnmatched(chars, position) ==
    IF position >= Len(chars) THEN Len(chars)
    ELSE IF RuleEnd(chars, position) = position THEN position
    ELSE FirstUnmatched(chars, RuleEnd(chars, position))

\* C17: tokenize is total and never partially consumes: it either returns a
\* token list whose last token is EOF and that holds no other EOF token, or
\* raises a syntax error at the first scan position where no rule matches,
\* with the error's offset equal to the index of that character; it never
\* returns a token list after skipping an unrecognized character.
C17_TokenizeTotal ==
    pc = "lexed" =>
        IF FirstUnmatched(lexer_text, 0) = Len(lexer_text)
        THEN /\ lexed.ok
             /\ Len(lexed.tokens) >= 1
             /\ \A i \in DOMAIN lexed.tokens :
                    (lexed.tokens[i].type = "EOF") <=> (i = Len(lexed.tokens))
        ELSE /\ ~lexed.ok
             /\ lexed.error = "TDXSyntaxError"
             /\ lexed.position = FirstUnmatched(lexer_text, 0)

\* C17 witness: tokenize has raised at a character that comes after some
\* recognized lexemes
C17_Witness ==
    /\ pc = "lexed"
    /\ ~lexed.ok
    /\ lexed.position > 0
    /\ lexed.position = FirstUnmatched(lexer_text, 0)

----------------------------------------------------------------------------
(* Claims about the Context                                                *)

\* C22: pop_scope on a Context whose scope stack holds only the global
\* scope raises an error and leaves the stack unchanged; after any sequence
\* of push_scope, pop_scope, set_variable, set_data and clear calls the
\* scope stack holds at least one scope.
C22_GlobalScopeStays ==
    [][/\ (pc'.call = "pop_scope" /\ Len(scopes) = 1) =>
             /\ ~result'.ok
             /\ result'.error = "TDXRuntimeError"
             /\ scopes' = scopes
       /\ Len(scopes) >= 1
       /\ Len(scopes') >= 1]_vars

\* C22 witness: pop_scope has raised on a stack that holds only the global
\* scope, with a variable in it
C22_Witness ==
    /\ pc.call = "pop_scope"
    /\ ~result.ok
    /\ Len(scopes) = 1
    /\ "X" \in DOMAIN scopes[1]

\* context.get_variable(name) on a Context with the scope stack and table
Lookup(stack, d, name) ==
    get_variable([scopes |-> stack, data |-> d, functions |-> functions], name)

\* C23: scopes are strictly LIFO and set writes only the innermost scope:
\* for a name x that is not a bound column, after push_scope(); set(x, v) a
\* lookup of x returns v while every outer scope's binding of x is
\* unchanged, and after the matching pop_scope() a lookup of x returns what
\* it returned before the push.
C23_ScopesAreLifo ==
    [][/\ pc'.call = "push_scope" =>
             /\ SubSeq(scopes', 1, Len(scopes)) = scopes
             /\ Len(scopes') = Len(scopes) + 1
             /\ \A x \in ContextNames :
                   Lookup(scopes', data', x) = Lookup(scopes, data, x)
       /\ pc'.call = "set_variable" =>
             /\ Len(scopes') = Len(scopes)
             /\ \A i \in 1..(Len(scopes) - 1) : scopes'[i] = scopes[i]
             /\ ~IsColumn(pc'.name, data') =>
                   Lookup(scopes', data', pc'.name) = EvalOk(pc'.value)
       /\ (pc'.call = "pop_scope" /\ Len(scopes) > 1) =>
             /\ result'.ok
             /\ scopes' = SubSeq(scopes, 1, Len(scopes) - 1)
             /\ \A x \in ContextNames :
                   Lookup(scopes', data', x)
                     = Lookup(SubSeq(scopes, 1, Len(scopes) - 1), data, x)]_vars

\* C23 witness: set has written an inner scope, and the outer scope still
\* binds the name to another value
C23_Witness ==
    /\ pc.call = "set_variable"
    /\ Len(scopes) >= 2
    /\ ~IsColumn(pc.name, data)
    /\ pc.name \in DOMAIN scopes[1]
    /\ scopes[1][pc.name] # pc.value
    /\ scopes[Len(scopes)][pc.name] = pc.value

----------------------------------------------------------------------------
(* Claims about validate                                                   *)

\* C24: validate(text) returns True exactly when tokenizing and parsing text
\* succeed and False exactly when they raise a syntax error; it never
\* raises, evaluates no node (a formula that references undefined names is
\* valid) and leaves the scopes and the bound table unchanged.
C24_ValidateIsSyntaxOnly ==
    [][pc' = "validated" =>
          /\ IsBool(result')
          /\ result'.bool =
               ( /\ tokenize(lexer_text).ok
                 /\ parse(tokenize(lexer_text).tokens).ok )
          /\ scopes' = scopes
          /\ data' = data]_vars

\* C24 witness: validate has returned True for a formula whose evaluation
\* would raise: the name it references is undefined
C24_Witness ==
    /\ pc = "validated"
    /\ result = PyBool(TRUE)
    /\ parse(tokenize(lexer_text).tokens).ok
    /\ parse(tokenize(lexer_text).tokens).node.body = <<Identifier(PyStr("CLOSE"))>>
    /\ ~get_variable([scopes |-> scopes, data |-> data, functions |-> functions],
                     "CLOSE").ok

----------------------------------------------------------------------------
(* Claims about the positions the lexer records                            *)

\* 1 plus the number of newline characters before the offset
LineOf(chars, offset) ==
    1 + Cardinality({k \in 1..offset : chars[k] = "\n"})

\* The offset minus the index of the last newline before it, offset + 1 on
\* the first line (indexes from 0: the newline chars[k] has index k - 1)
ColumnOf(chars, offset) ==
    IF \E k \in 1..offset : chars[k] = "\n"
    THEN offset - ((CHOOSE k \in 1..offset :
                        chars[k] = "\n" /\ \A j \in (k + 1)..offset : chars[j] # "\n")
                   - 1)
    ELSE offset + 1

\* C26: for every token tokenize emits, and for the position an
\* unknown-character error carries, line is 1 plus the number of newlines
\* before the offset and column is the offset minus the index of the last
\* preceding newline (offset + 1 on the first line), also after block
\* comments and string literals that hold newlines.
C26_PositionsTracked ==
    pc = "lexed" =>
        IF lexed.ok
        THEN \A i \in 1..(Len(lexed.tokens) - 1) :
                /\ lexed.tokens[i].line = LineOf(lexer_text, lexed.tokens[i].position)
                /\ lexed.tokens[i].column = ColumnOf(lexer_text, lexed.tokens[i].position)
        ELSE /\ lexed.line = LineOf(lexer_text, lexed.position)
             /\ lexed.column = ColumnOf(lexer_text, lexed.position)

----------------------------------------------------------------------------
(* Claims about the FunctionRegistry                                       *)

\* C28: after any sequence of register and unregister calls no name is both
\* a registered function name and an alias, and once unregister(N) has
\* returned has(N) is false and get(N) raises TDXNameError
C28_NamesUnique ==
    /\ DOMAIN registry \cap DOMAIN aliases = {}
    /\ (pc.call = "unregister" /\ result.ok) =>
           /\ ~registry_has(TheRegistry, pc.name)
           /\ ~registry_get(TheRegistry, pc.name).ok

\* C29: a register that raises leaves the functions, the aliases and the
\* category index as they were before the call
C29_RegisterAtomic ==
    [][(pc'.call = "register" /\ ~result'.ok) =>
           (registry' = registry /\ aliases' = aliases /\ categories' = categories)]_vars

----------------------------------------------------------------------------
(* Claims about two interpreters in one process                            *)

\* What every evaluate call on the second interpreter gives when the
\* registry of the module holds reg
OtherResults(reg) ==
    [formula \in InstanceFormulas |->
        [context \in {PyNone} \cup InstanceTables |->
            interpreter_evaluate(formula,
                [OtherContext EXCEPT !.data =
                    IF context = PyNone THEN other.data ELSE DataFrame(context)],
                reg).result]]

\* C30: an operation on one interpreter leaves the result of every evaluate
\* call on the other one unchanged, and register_function of a name succeeds
\* on the second interpreter after it succeeded on the first
C30_InstancesIsolated ==
    [][/\ other' = other => OtherResults(registry') = OtherResults(registry)
       /\ registry' # registry => (other' = other \/ other'.result.ok)]_vars

====
